---- MODULE Spec2Model ----
(***************************************************************************)
(* Verification model of the resume-classification data pipeline           *)
(* (HW_06_Classification): the ProcessingPipeline runner, the DataStage    *)
(* implementations registered by create_data_pipeline, and the pure        *)
(* parsing / labeling functions they apply to every row.                   *)
(*                                                                         *)
(* Text is modelled as a sequence of Unicode code points, so that          *)
(* lower(), split(), strip(), isdigit() and substring tests are computed   *)
(* the way Python computes them.  Column names are texts as well.          *)
(***************************************************************************)
EXTENDS Integers, Sequences, FiniteSets, TLC

----------------------------------------------------------------------------
(* State.                                                                   *)

VARIABLES
    stages,       \* ProcessingPipeline.stages: the names of the stages, in order
    registered,   \* history: the stages in the order they were registered
    pc,           \* position of ProcessingPipeline.run: idle, running, done, failed
    idx,          \* number of stages run has completed
    current,      \* the local variable current of run: the DataContainer
    stage_input,  \* history: the container passed to the stage called last
    result,       \* the value run returned, None before it returns
    error,        \* the exception run propagated to its caller, "" if none
    log,          \* the log records written so far
    fn_arg,       \* the argument of a pure function under test; in a
                  \* repeated run, what the installation does
    fn_ret        \* its result, None before the call; in a repeated
                  \* run, the outcome of the first run

vars ==
    <<stages, registered, pc, idx, current, stage_input, result, error, log,
      fn_arg, fn_ret>>

pipeline_vars ==
    <<stages, registered, pc, idx, current, stage_input, result, error, log>>


----------------------------------------------------------------------------
(* Python values that can sit in a DataFrame cell.                          *)

None == [isNone |-> TRUE]

\* float('nan'): what read_csv produces for an empty field
NaN == [t |-> "nan"]

\* a Python str
Str(s) == [t |-> "str", s |-> s]

\* a Python / numpy integer
Num(n) == [t |-> "num", n |-> n]

\* isinstance(value, str)
IsStr(v) == v.t = "str"

----------------------------------------------------------------------------
(* Python str operations on code-point sequences.                           *)

\* one character of str.lower(): A-Z, the Cyrillic capitals and U+0400-U+040F
LowerChar(c) ==
    IF c \in 65..90 THEN c + 32
    ELSE IF c \in 1040..1071 THEN c + 32
    ELSE IF c \in 1024..1039 THEN c + 80
    ELSE c

\* str.lower()
lower(s) == [i \in 1..Len(s) |-> LowerChar(s[i])]

\* the Python test  sub in s
Contains(s, sub) ==
    \E i \in 0..(Len(s) - Len(sub)) : \A k \in 1..Len(sub) : s[i + k] = sub[k]

\* any(kw in s for kw in keywords)
AnyIn(keywords, s) == \E k \in 1..Len(keywords) : Contains(s, keywords[k])

\* str.isspace() for one character (U+00A0, the non-breaking space, included)
IsSpace(c) == c \in {9, 10, 11, 12, 13, 28, 29, 30, 31, 32, 133, 160}

\* characters accepted by int() as decimal digits: ASCII and Arabic-Indic
IsDecimal(c) == c \in 48..57 \/ c \in 1632..1641

\* str.isdigit() for one character: the decimals and the superscripts 1, 2, 3
IsDigitChar(c) == IsDecimal(c) \/ c \in {178, 179, 185}

\* value of a decimal digit character
DigitVal(c) == IF c \in 48..57 THEN c - 48 ELSE c - 1632

\* str.isdigit()
isdigit(s) == Len(s) > 0 /\ \A i \in 1..Len(s) : IsDigitChar(s[i])

\* the text after the first i characters
Drop(s, i) == SubSeq(s, i + 1, Len(s))

\* number of leading whitespace characters
RECURSIVE LeadingSpaces(_)
LeadingSpaces(s) ==
    IF s = <<>> \/ ~IsSpace(Head(s)) THEN 0 ELSE 1 + LeadingSpaces(Tail(s))

\* number of trailing whitespace characters
RECURSIVE TrailingSpaces(_)
TrailingSpaces(s) ==
    IF s = <<>> \/ ~IsSpace(s[Len(s)]) THEN 0
    ELSE 1 + TrailingSpaces(SubSeq(s, 1, Len(s) - 1))

\* str.strip()
strip(s) ==
    IF LeadingSpaces(s) = Len(s) THEN <<>>
    ELSE SubSeq(s, LeadingSpaces(s) + 1, Len(s) - TrailingSpaces(s))

\* str.replace(old, new) for single characters
replace(s, old, new) == [i \in 1..Len(s) |-> IF s[i] = old THEN new ELSE s[i]]

\* position of the first occurrence of character sep in s, 0 when absent
RECURSIVE FindChar(_, _, _)
FindChar(s, sep, from) ==
    IF from > Len(s) THEN 0
    ELSE IF s[from] = sep THEN from
    ELSE FindChar(s, sep, from + 1)

\* str.split(sep) for a one-character separator: never empty, keeps empty parts
RECURSIVE split(_, _)
split(s, sep) ==
    IF FindChar(s, sep, 1) = 0 THEN <<s>>
    ELSE <<SubSeq(s, 1, FindChar(s, sep, 1) - 1)>>
         \o split(Drop(s, FindChar(s, sep, 1)), sep)

\* sep.join(parts) for a one-character separator
RECURSIVE join(_, _)
join(parts, sep) ==
    IF parts = <<>> THEN <<>>
    ELSE IF Len(parts) = 1 THEN parts[1]
    ELSE parts[1] \o <<sep>> \o join(Tail(parts), sep)

\* value of a run of decimal digits
RECURSIVE DecimalValue(_)
DecimalValue(s) ==
    IF s = <<>> THEN 0
    ELSE 10 * DecimalValue(SubSeq(s, 1, Len(s) - 1)) + DigitVal(s[Len(s)])

\* digits of a natural number, most significant first
RECURSIVE Digits(_)
Digits(n) == IF n < 10 THEN <<48 + n>> ELSE Digits(n \div 10) \o <<48 + (n % 10)>>

\* str(value) for a cell value: 'nan' for NaN, the decimal text for an integer
str(v) ==
    IF v.t = "str" THEN v.s
    ELSE IF v.t = "nan" THEN <<110, 97, 110>>
    ELSE IF v.n < 0 THEN <<45>> \o Digits(-v.n)
    ELSE Digits(v.n)

\* int(text): ValueError for anything that is not an optionally signed run
\* of decimal digits (single underscores between digits allowed) with
\* surrounding whitespace
IntBody(s) ==
    IF s # <<>> /\ s[1] \in {43, 45} THEN Drop(s, 1) ELSE s

IntDigits(s) == SelectSeq(IntBody(strip(s)), LAMBDA c : c # 95)

IntParses(s) ==
    LET b == IntBody(strip(s)) IN
        /\ b # <<>>
        /\ \A i \in 1..Len(b) : IsDecimal(b[i]) \/ b[i] = 95
        /\ b[1] # 95 /\ b[Len(b)] # 95
        /\ \A i \in 1..(Len(b) - 1) : ~(b[i] = 95 /\ b[i + 1] = 95)

int(s) ==
    IF strip(s) # <<>> /\ strip(s)[1] = 45
    THEN -DecimalValue(IntDigits(s))
    ELSE DecimalValue(IntDigits(s))

----------------------------------------------------------------------------
(* DataFrame rows: a row is a function from column names to cell values.    *)

\* row.get(key, default)
Get(row, key, default) == IF key \in DOMAIN row THEN row[key] ELSE default

\* DataFrame column names used by the stages

\* 'Пол, возраст'
COL_personal == <<1055, 1086, 1083, 44, 32, 1074, 1086, 1079, 1088, 1072, 1089, 1090>>

\* 'ЗП'
COL_salary == <<1047, 1055>>

\* 'Ищет работу на должность:'
job_title_col == <<1048, 1097, 1077, 1090, 32, 1088, 1072, 1073, 1086, 1090, 1091, 32, 1085, 1072, 32, 1076, 1086, 1083, 1078, 1085, 1086, 1089, 1090, 1100, 58>>

\* 'Город'
COL_city == <<1043, 1086, 1088, 1086, 1076>>

\* 'Занятость'
emp_col == <<1047, 1072, 1085, 1103, 1090, 1086, 1089, 1090, 1100>>

\* 'График'
schedule_col == <<1043, 1088, 1072, 1092, 1080, 1082>>

\* 'Опыт (двойное нажатие для полной версии)'
exp_col == <<1054, 1087, 1099, 1090, 32, 40, 1076, 1074, 1086, 1081, 1085, 1086, 1077, 32, 1085, 1072, 1078, 1072, 1090, 1080, 1077, 32, 1076, 1083, 1103, 32, 1087, 1086, 1083, 1085, 1086, 1081, 32, 1074, 1077, 1088, 1089, 1080, 1080, 41>>

\* 'Последенее/нынешнее место работы'
COL_last_place == <<1055, 1086, 1089, 1083, 1077, 1076, 1077, 1085, 1077, 1077, 47, 1085, 1099, 1085, 1077, 1096, 1085, 1077, 1077, 32, 1084, 1077, 1089, 1090, 1086, 32, 1088, 1072, 1073, 1086, 1090, 1099>>

\* 'Последеняя/нынешняя должность'
COL_last_job == <<1055, 1086, 1089, 1083, 1077, 1076, 1077, 1085, 1103, 1103, 47, 1085, 1099, 1085, 1077, 1096, 1085, 1103, 1103, 32, 1076, 1086, 1083, 1078, 1085, 1086, 1089, 1090, 1100>>

\* 'Образование и ВУЗ'
edu_col == <<1054, 1073, 1088, 1072, 1079, 1086, 1074, 1072, 1085, 1080, 1077, 32, 1080, 32, 1042, 1059, 1047>>

\* 'Обновление резюме'
COL_resume_date == <<1054, 1073, 1085, 1086, 1074, 1083, 1077, 1085, 1080, 1077, 32, 1088, 1077, 1079, 1102, 1084, 1077>>

\* 'Авто'
COL_car == <<1040, 1074, 1090, 1086>>

\* '_job_title'
COL_tmp_job_title == <<95, 106, 111, 98, 95, 116, 105, 116, 108, 101>>

\* 'experience_months'
COL_experience_months == <<101, 120, 112, 101, 114, 105, 101, 110, 99, 101, 95, 109, 111, 110, 116, 104, 115>>

\* 'developer_level'
COL_developer_level == <<100, 101, 118, 101, 108, 111, 112, 101, 114, 95, 108, 101, 118, 101, 108>>

\* 'gender'
COL_gender == <<103, 101, 110, 100, 101, 114>>

\* 'age'
COL_age == <<97, 103, 101>>

\* 'birth_month'
COL_birth_month == <<98, 105, 114, 116, 104, 95, 109, 111, 110, 116, 104>>

\* 'salary_rub'
COL_salary_rub == <<115, 97, 108, 97, 114, 121, 95, 114, 117, 98>>

\* 'region'
COL_region == <<114, 101, 103, 105, 111, 110>>

\* 'resume_old'
COL_resume_old == <<114, 101, 115, 117, 109, 101, 95, 111, 108, 100>>

\* 'has_car'
COL_has_car == <<104, 97, 115, 95, 99, 97, 114>>

\* 'employment_'
PREFIX_employment == <<101, 109, 112, 108, 111, 121, 109, 101, 110, 116, 95>>

\* 'schedule_'
PREFIX_schedule == <<115, 99, 104, 101, 100, 117, 108, 101, 95>>

\* 'education_'
PREFIX_education == <<101, 100, 117, 99, 97, 116, 105, 111, 110, 95>>

----------------------------------------------------------------------------
(* transformations/labeling.py: DeveloperLevelLabelerStage                  *)

JUNIOR_INDICATORS ==
    << <<106, 117, 110, 105, 111, 114>>   \* 'junior'
     , <<106, 117, 110, 32>>   \* 'jun '
     , <<106, 114, 32>>   \* 'jr '
     , <<116, 114, 97, 105, 110, 101, 101>>   \* 'trainee'
     , <<1089, 1090, 1072, 1078, 1077, 1088>>   \* 'стажер'
     , <<1089, 1090, 1072, 1078, 1105, 1088>>   \* 'стажёр'
     , <<105, 110, 116, 101, 114, 110>>   \* 'intern'
     , <<1084, 1083, 1072, 1076, 1096, 1080, 1081>>   \* 'младший'
     , <<1085, 1072, 1095, 1080, 1085, 1072, 1102, 1097, 1080, 1081>>   \* 'начинающий'
    >>

SENIOR_INDICATORS ==
    << <<115, 101, 110, 105, 111, 114>>   \* 'senior'
     , <<115, 114, 32>>   \* 'sr '
     , <<108, 101, 97, 100>>   \* 'lead'
     , <<112, 114, 105, 110, 99, 105, 112, 97, 108>>   \* 'principal'
     , <<115, 116, 97, 102, 102>>   \* 'staff'
     , <<1074, 1077, 1076, 1091, 1097, 1080, 1081>>   \* 'ведущий'
     , <<1075, 1083, 1072, 1074, 1085, 1099, 1081>>   \* 'главный'
     , <<1088, 1091, 1082, 1086, 1074, 1086, 1076, 1080, 1090, 1077, 1083, 1100>>   \* 'руководитель'
     , <<116, 101, 97, 109, 32, 108, 101, 97, 100>>   \* 'team lead'
     , <<97, 114, 99, 104, 105, 116, 101, 99, 116>>   \* 'architect'
     , <<104, 101, 97, 100, 32, 111, 102>>   \* 'head of'
     , <<101, 120, 112, 101, 114, 116>>   \* 'expert'
    >>

MIDDLE_INDICATORS ==
    << <<109, 105, 100, 100, 108, 101>>   \* 'middle'
     , <<109, 105, 100, 32>>   \* 'mid '
     , <<1084, 1080, 1076, 1083>>   \* 'мидл'
     , <<1084, 1080, 1076, 1083, 1083>>   \* 'мидлл'
    >>

\* the three labels
Junior == <<74, 117, 110, 105, 111, 114>>

Middle == <<77, 105, 100, 100, 108, 101>>

Senior == <<83, 101, 110, 105, 111, 114>>

\* threshold of the conflicting-indicators rule (months)
CONFLICT_SENIOR_MONTHS == 36

\* threshold of the junior-title rule (months)
JUNIOR_TITLE_MIDDLE_MONTHS == 60

\* threshold of the middle-title rule (months)
MIDDLE_TITLE_SENIOR_MONTHS == 96

\* upper bound of Junior in the experience-only rule (months)
DEFAULT_JUNIOR_MONTHS == 18

\* upper bound of Middle in the experience-only rule (months)
DEFAULT_MIDDLE_MONTHS == 60

\* has_junior / has_senior / has_middle of _determine_level
has_junior(job_title) == AnyIn(JUNIOR_INDICATORS, job_title)

has_senior(job_title) == AnyIn(SENIOR_INDICATORS, job_title)

has_middle(job_title) == AnyIn(MIDDLE_INDICATORS, job_title)

\* LevelOf with the Middle rule's test written >= instead of >
LevelOf_MiddleInclusive(junior, senior, middle, experience_months) ==
    IF senior /\ junior THEN
        (IF experience_months > CONFLICT_SENIOR_MONTHS THEN Senior ELSE Junior)
    ELSE IF senior THEN Senior
    ELSE IF junior THEN
        (IF experience_months > JUNIOR_TITLE_MIDDLE_MONTHS THEN Middle ELSE Junior)
    ELSE IF middle THEN
        (IF experience_months >= MIDDLE_TITLE_SENIOR_MONTHS THEN Senior ELSE Middle)
    ELSE IF experience_months <= DEFAULT_JUNIOR_MONTHS THEN Junior
    ELSE IF experience_months <= DEFAULT_MIDDLE_MONTHS THEN Middle
    ELSE Senior

\* LevelOf with the conflict rule resolved for the Senior indicator alone
LevelOf_SeniorWins(junior, senior, middle, experience_months) ==
    IF senior THEN Senior
    ELSE IF junior THEN
        (IF experience_months > JUNIOR_TITLE_MIDDLE_MONTHS THEN Middle ELSE Junior)
    ELSE IF middle THEN
        (IF experience_months > MIDDLE_TITLE_SENIOR_MONTHS THEN Senior ELSE Middle)
    ELSE IF experience_months <= DEFAULT_JUNIOR_MONTHS THEN Junior
    ELSE IF experience_months <= DEFAULT_MIDDLE_MONTHS THEN Middle
    ELSE Senior

\* LevelOf with the experience-only rule's first bound written < instead of <=
LevelOf_JuniorExclusive(junior, senior, middle, experience_months) ==
    IF senior /\ junior THEN
        (IF experience_months > CONFLICT_SENIOR_MONTHS THEN Senior ELSE Junior)
    ELSE IF senior THEN Senior
    ELSE IF junior THEN
        (IF experience_months > JUNIOR_TITLE_MIDDLE_MONTHS THEN Middle ELSE Junior)
    ELSE IF middle THEN
        (IF experience_months > MIDDLE_TITLE_SENIOR_MONTHS THEN Senior ELSE Middle)
    ELSE IF experience_months < DEFAULT_JUNIOR_MONTHS THEN Junior
    ELSE IF experience_months <= DEFAULT_MIDDLE_MONTHS THEN Middle
    ELSE Senior

\* LevelOf with the Middle rule tested before the Junior rule
LevelOf_MiddleFirst(junior, senior, middle, experience_months) ==
    IF senior /\ junior THEN
        (IF experience_months > CONFLICT_SENIOR_MONTHS THEN Senior ELSE Junior)
    ELSE IF senior THEN Senior
    ELSE IF middle THEN
        (IF experience_months > MIDDLE_TITLE_SENIOR_MONTHS THEN Senior ELSE Middle)
    ELSE IF junior THEN
        (IF experience_months > JUNIOR_TITLE_MIDDLE_MONTHS THEN Middle ELSE Junior)
    ELSE IF experience_months <= DEFAULT_JUNIOR_MONTHS THEN Junior
    ELSE IF experience_months <= DEFAULT_MIDDLE_MONTHS THEN Middle
    ELSE Senior

\* the label chosen from the three flags and the experience in months
LevelOf(junior, senior, middle, experience_months) ==
    IF senior /\ junior THEN
        (IF experience_months > CONFLICT_SENIOR_MONTHS THEN Senior ELSE Junior)
    ELSE IF senior THEN Senior
    ELSE IF junior THEN
        (IF experience_months > JUNIOR_TITLE_MIDDLE_MONTHS THEN Middle ELSE Junior)
    ELSE IF middle THEN
        (IF experience_months > MIDDLE_TITLE_SENIOR_MONTHS THEN Senior ELSE Middle)
    ELSE IF experience_months <= DEFAULT_JUNIOR_MONTHS THEN Junior
    ELSE IF experience_months <= DEFAULT_MIDDLE_MONTHS THEN Middle
    ELSE Senior

\* DeveloperLevelLabelerStage._determine_level(row)
_determine_level(row) ==
    LET job_title == lower(str(Get(row, COL_tmp_job_title, Str(<<>>))))
        experience_months == Get(row, COL_experience_months, Num(0)).n
    IN  LevelOf(has_junior(job_title), has_senior(job_title),
                has_middle(job_title), experience_months)

----------------------------------------------------------------------------
(* transformations/filters.py: ITDeveloperFilterStage                       *)

PRIMARY_KEYWORDS ==
    << <<1088, 1072, 1079, 1088, 1072, 1073, 1086, 1090, 1095, 1080, 1082>>   \* 'разработчик'
     , <<100, 101, 118, 101, 108, 111, 112, 101, 114>>   \* 'developer'
     , <<1087, 1088, 1086, 1075, 1088, 1072, 1084, 1084, 1080, 1089, 1090>>   \* 'программист'
     , <<112, 114, 111, 103, 114, 97, 109, 109, 101, 114>>   \* 'programmer'
     , <<100, 101, 118, 111, 112, 115>>   \* 'devops'
     , <<115, 114, 101>>   \* 'sre'
     , <<98, 97, 99, 107, 101, 110, 100>>   \* 'backend'
     , <<102, 114, 111, 110, 116, 101, 110, 100>>   \* 'frontend'
     , <<102, 117, 108, 108, 115, 116, 97, 99, 107>>   \* 'fullstack'
     , <<102, 117, 108, 108, 45, 115, 116, 97, 99, 107>>   \* 'full-stack'
     , <<102, 117, 108, 108, 32, 115, 116, 97, 99, 107>>   \* 'full stack'
     , <<100, 97, 116, 97, 32, 115, 99, 105, 101, 110, 116, 105, 115, 116>>   \* 'data scientist'
     , <<100, 97, 116, 97, 32, 97, 110, 97, 108, 121, 115, 116>>   \* 'data analyst'
     , <<100, 97, 116, 97, 32, 101, 110, 103, 105, 110, 101, 101, 114>>   \* 'data engineer'
     , <<109, 97, 99, 104, 105, 110, 101, 32, 108, 101, 97, 114, 110, 105, 110, 103>>   \* 'machine learning'
     , <<109, 108, 32, 101, 110, 103, 105, 110, 101, 101, 114>>   \* 'ml engineer'
     , <<100, 101, 101, 112, 32, 108, 101, 97, 114, 110, 105, 110, 103>>   \* 'deep learning'
     , <<113, 97>>   \* 'qa'
     , <<1090, 1077, 1089, 1090, 1080, 1088, 1086, 1074, 1097, 1080, 1082>>   \* 'тестировщик'
     , <<116, 101, 115, 116, 101, 114>>   \* 'tester'
     , <<116, 101, 115, 116, 32, 101, 110, 103, 105, 110, 101, 101, 114>>   \* 'test engineer'
     , <<1089, 1080, 1089, 1090, 1077, 1084, 1085, 1099, 1081, 32, 1072, 1076, 1084, 1080, 1085, 1080, 1089, 1090, 1088, 1072, 1090, 1086, 1088>>   \* 'системный администратор'
     , <<115, 121, 115, 116, 101, 109, 32, 97, 100, 109, 105, 110, 105, 115, 116, 114, 97, 116, 111, 114>>   \* 'system administrator'
     , <<115, 121, 115, 97, 100, 109, 105, 110>>   \* 'sysadmin'
     , <<1089, 1077, 1090, 1077, 1074, 1086, 1081, 32, 1080, 1085, 1078, 1077, 1085, 1077, 1088>>   \* 'сетевой инженер'
     , <<110, 101, 116, 119, 111, 114, 107, 32, 101, 110, 103, 105, 110, 101, 101, 114>>   \* 'network engineer'
     , <<1074, 1077, 1073, 45, 1088, 1072, 1079, 1088, 1072, 1073, 1086, 1090, 1095, 1080, 1082>>   \* 'веб-разработчик'
     , <<119, 101, 98, 32, 100, 101, 118, 101, 108, 111, 112, 101, 114>>   \* 'web developer'
     , <<105, 111, 115>>   \* 'ios'
     , <<97, 110, 100, 114, 111, 105, 100>>   \* 'android'
     , <<1084, 1086, 1073, 1080, 1083, 1100, 1085, 1099, 1081, 32, 1088, 1072, 1079, 1088, 1072, 1073, 1086, 1090, 1095, 1080, 1082>>   \* 'мобильный разработчик'
     , <<109, 111, 98, 105, 108, 101, 32, 100, 101, 118, 101, 108, 111, 112, 101, 114>>   \* 'mobile developer'
     , <<49, 1089>>   \* '1с'
     , <<49, 99>>   \* '1c'
     , <<100, 98, 97>>   \* 'dba'
     , <<100, 97, 116, 97, 98, 97, 115, 101, 32, 97, 100, 109, 105, 110, 105, 115, 116, 114, 97, 116, 111, 114>>   \* 'database administrator'
     , <<1072, 1076, 1084, 1080, 1085, 1080, 1089, 1090, 1088, 1072, 1090, 1086, 1088, 32, 1073, 1072, 1079, 32, 1076, 1072, 1085, 1085, 1099, 1093>>   \* 'администратор баз данных'
     , <<1080, 1085, 1092, 1086, 1088, 1084, 1072, 1094, 1080, 1086, 1085, 1085, 1072, 1103, 32, 1073, 1077, 1079, 1086, 1087, 1072, 1089, 1085, 1086, 1089, 1090, 1100>>   \* 'информационная безопасность'
     , <<105, 110, 102, 111, 114, 109, 97, 116, 105, 111, 110, 32, 115, 101, 99, 117, 114, 105, 116, 121>>   \* 'information security'
     , <<1072, 1085, 1072, 1083, 1080, 1090, 1080, 1082, 32, 1076, 1072, 1085, 1085, 1099, 1093>>   \* 'аналитик данных'
     , <<1073, 1080, 1079, 1085, 1077, 1089, 45, 1072, 1085, 1072, 1083, 1080, 1090, 1080, 1082>>   \* 'бизнес-аналитик'
     , <<115, 99, 114, 117, 109>>   \* 'scrum'
     , <<97, 103, 105, 108, 101>>   \* 'agile'
     , <<112, 114, 111, 100, 117, 99, 116, 32, 111, 119, 110, 101, 114>>   \* 'product owner'
     , <<112, 114, 111, 106, 101, 99, 116, 32, 109, 97, 110, 97, 103, 101, 114>>   \* 'project manager'
     , <<117, 105, 47, 117, 120>>   \* 'ui/ux'
     , <<117, 120>>   \* 'ux'
     , <<117, 105, 32, 100, 101, 115, 105, 103, 110, 101, 114>>   \* 'ui designer'
     , <<1074, 1077, 1088, 1089, 1090, 1072, 1083, 1100, 1097, 1080, 1082>>   \* 'верстальщик'
     , <<104, 116, 109, 108>>   \* 'html'
     , <<1090, 1077, 1093, 1085, 1080, 1095, 1077, 1089, 1082, 1072, 1103, 32, 1087, 1086, 1076, 1076, 1077, 1088, 1078, 1082, 1072>>   \* 'техническая поддержка'
     , <<116, 101, 99, 104, 110, 105, 99, 97, 108, 32, 115, 117, 112, 112, 111, 114, 116>>   \* 'technical support'
     , <<104, 101, 108, 112, 100, 101, 115, 107>>   \* 'helpdesk'
    >>

TECH_STACK_KEYWORDS ==
    << <<112, 121, 116, 104, 111, 110>>   \* 'python'
     , <<106, 97, 118, 97>>   \* 'java'
     , <<106, 97, 118, 97, 115, 99, 114, 105, 112, 116>>   \* 'javascript'
     , <<116, 121, 112, 101, 115, 99, 114, 105, 112, 116>>   \* 'typescript'
     , <<99, 43, 43>>   \* 'c++'
     , <<99, 35>>   \* 'c#'
     , <<103, 111, 108, 97, 110, 103>>   \* 'golang'
     , <<103, 111, 32>>   \* 'go '
     , <<114, 117, 115, 116>>   \* 'rust'
     , <<114, 117, 98, 121>>   \* 'ruby'
     , <<112, 104, 112>>   \* 'php'
     , <<115, 119, 105, 102, 116>>   \* 'swift'
     , <<107, 111, 116, 108, 105, 110>>   \* 'kotlin'
     , <<114, 101, 97, 99, 116>>   \* 'react'
     , <<97, 110, 103, 117, 108, 97, 114>>   \* 'angular'
     , <<118, 117, 101>>   \* 'vue'
     , <<100, 106, 97, 110, 103, 111>>   \* 'django'
     , <<102, 108, 97, 115, 107>>   \* 'flask'
     , <<115, 112, 114, 105, 110, 103>>   \* 'spring'
     , <<100, 111, 99, 107, 101, 114>>   \* 'docker'
     , <<107, 117, 98, 101, 114, 110, 101, 116, 101, 115>>   \* 'kubernetes'
     , <<107, 56, 115>>   \* 'k8s'
     , <<116, 101, 114, 114, 97, 102, 111, 114, 109>>   \* 'terraform'
     , <<97, 110, 115, 105, 98, 108, 101>>   \* 'ansible'
     , <<97, 119, 115>>   \* 'aws'
     , <<97, 122, 117, 114, 101>>   \* 'azure'
     , <<103, 99, 112>>   \* 'gcp'
     , <<115, 113, 108>>   \* 'sql'
     , <<110, 111, 115, 113, 108>>   \* 'nosql'
     , <<109, 111, 110, 103, 111, 100, 98>>   \* 'mongodb'
     , <<112, 111, 115, 116, 103, 114, 101, 115, 113, 108>>   \* 'postgresql'
     , <<108, 105, 110, 117, 120>>   \* 'linux'
     , <<117, 110, 105, 120>>   \* 'unix'
     , <<97, 112, 105>>   \* 'api'
     , <<109, 105, 99, 114, 111, 115, 101, 114, 118, 105, 99, 101>>   \* 'microservice'
     , <<1084, 1080, 1082, 1088, 1086, 1089, 1077, 1088, 1074, 1080, 1089>>   \* 'микросервис'
    >>

AMBIGUOUS_KEYWORDS ==
    << <<1080, 1085, 1078, 1077, 1085, 1077, 1088>>   \* 'инженер'
     , <<101, 110, 103, 105, 110, 101, 101, 114>>   \* 'engineer'
     , <<1072, 1076, 1084, 1080, 1085, 1080, 1089, 1090, 1088, 1072, 1090, 1086, 1088>>   \* 'администратор'
     , <<97, 100, 109, 105, 110>>   \* 'admin'
     , <<1072, 1085, 1072, 1083, 1080, 1090, 1080, 1082>>   \* 'аналитик'
     , <<97, 110, 97, 108, 121, 115, 116>>   \* 'analyst'
     , <<1072, 1088, 1093, 1080, 1090, 1077, 1082, 1090, 1086, 1088>>   \* 'архитектор'
     , <<97, 114, 99, 104, 105, 116, 101, 99, 116>>   \* 'architect'
     , <<1082, 1086, 1085, 1089, 1091, 1083, 1100, 1090, 1072, 1085, 1090>>   \* 'консультант'
     , <<99, 111, 110, 115, 117, 108, 116, 97, 110, 116>>   \* 'consultant'
     , <<1084, 1077, 1085, 1077, 1076, 1078, 1077, 1088, 32, 1087, 1088, 1086, 1077, 1082, 1090>>   \* 'менеджер проект'
     , <<112, 114, 111, 106, 101, 99, 116, 32, 109, 97, 110, 97, 103, 101, 114>>   \* 'project manager'
    >>

IT_CONTEXT_INDICATORS ==
    << <<1087, 1086>>   \* 'по'
     , <<1087, 1088, 1086, 1075, 1088, 1072, 1084, 1084>>   \* 'программ'
     , <<1089, 1086, 1092, 1090>>   \* 'софт'
     , <<115, 111, 102, 116>>   \* 'soft'
     , <<105, 116>>   \* 'it'
     , <<1080, 1090>>   \* 'ит'
     , <<1080, 1085, 1092, 1086, 1088, 1084, 1072, 1094>>   \* 'информац'
     , <<1072, 1074, 1090, 1086, 1084, 1072, 1090, 1080, 1079>>   \* 'автоматиз'
     , <<1072, 1089, 1091>>   \* 'асу'
     , <<101, 114, 112>>   \* 'erp'
     , <<99, 114, 109>>   \* 'crm'
     , <<115, 97, 112>>   \* 'sap'
     , <<100, 101, 118, 111, 112, 115>>   \* 'devops'
     , <<99, 108, 111, 117, 100>>   \* 'cloud'
     , <<1086, 1073, 1083, 1072, 1095>>   \* 'облач'
     , <<1089, 1077, 1090>>   \* 'сет'
     , <<110, 101, 116, 119, 111, 114, 107>>   \* 'network'
     , <<1089, 1080, 1089, 1090, 1077, 1084>>   \* 'систем'
     , <<1076, 1072, 1085, 1085>>   \* 'данн'
     , <<100, 97, 116, 97>>   \* 'data'
     , <<1073, 1072, 1079>>   \* 'баз'
     , <<100, 97, 116, 97, 98, 97, 115, 101>>   \* 'database'
     , <<99, 121, 98, 101, 114>>   \* 'cyber'
     , <<1082, 1080, 1073, 1077, 1088>>   \* 'кибер'
     , <<1090, 1077, 1093, 1085>>   \* 'техн'
     , <<116, 101, 99, 104>>   \* 'tech'
     , <<1094, 1080, 1092, 1088>>   \* 'цифр'
     , <<100, 105, 103, 105, 116, 97, 108>>   \* 'digital'
    >>

\* _is_it_position accepting an ambiguous keyword without IT context
_is_it_position_no_context(job_title) ==
    IF ~IsStr(job_title) THEN FALSE
    ELSE LET title_lower == lower(job_title.s) IN
        IF AnyIn(PRIMARY_KEYWORDS, title_lower) THEN TRUE
        ELSE IF AnyIn(TECH_STACK_KEYWORDS, title_lower) THEN TRUE
        ELSE AnyIn(AMBIGUOUS_KEYWORDS, title_lower)

\* ITDeveloperFilterStage._is_it_position(job_title)
_is_it_position(job_title) ==
    IF ~IsStr(job_title) THEN FALSE
    ELSE LET title_lower == lower(job_title.s) IN
        IF AnyIn(PRIMARY_KEYWORDS, title_lower) THEN TRUE
        ELSE IF AnyIn(TECH_STACK_KEYWORDS, title_lower) THEN TRUE
        ELSE IF AnyIn(AMBIGUOUS_KEYWORDS, title_lower)
             THEN AnyIn(IT_CONTEXT_INDICATORS, title_lower)
        ELSE FALSE

----------------------------------------------------------------------------
(* transformations/feature_extractors.py: ExperienceExtractorStage          *)

\* the alternatives of the year group (?:год|года|лет)
YEAR_WORDS ==
    << <<1075, 1086, 1076>>   \* 'год'
     , <<1075, 1086, 1076, 1072>>   \* 'года'
     , <<1083, 1077, 1090>>   \* 'лет'
    >>

\* the alternatives of the month group (?:месяц|месяца|месяцев)
MONTH_WORDS ==
    << <<1084, 1077, 1089, 1103, 1094>>   \* 'месяц'
     , <<1084, 1077, 1089, 1103, 1094, 1072>>   \* 'месяца'
     , <<1084, 1077, 1089, 1103, 1094, 1077, 1074>>   \* 'месяцев'
    >>

\* first position at or after i that does not hold a decimal digit
RECURSIVE DigitRunEnd(_, _)
DigitRunEnd(s, i) ==
    IF i > Len(s) \/ ~IsDecimal(s[i]) THEN i ELSE DigitRunEnd(s, i + 1)

\* first position at or after i that does not hold whitespace
RECURSIVE SpaceRunEnd(_, _)
SpaceRunEnd(s, i) ==
    IF i > Len(s) \/ ~IsSpace(s[i]) THEN i ELSE SpaceRunEnd(s, i + 1)

\* word is the text of s starting at position i
StartsAt(s, i, word) ==
    /\ i + Len(word) - 1 <= Len(s)
    /\ \A k \in 1..Len(word) : s[i + k - 1] = word[k]

\* the pattern (\d+)\s*(?:w1|w2|...) matches s starting at position i
MatchesAt(s, i, words) ==
    /\ i <= Len(s)
    /\ IsDecimal(s[i])
    /\ \E w \in 1..Len(words) :
           StartsAt(s, SpaceRunEnd(s, DigitRunEnd(s, i)), words[w])

\* re.search(r'(\d+)\s*(?:w1|w2|...)', s): group 1 of the leftmost match
Search(s, words) ==
    LET starts == {i \in 1..Len(s) : MatchesAt(s, i, words)} IN
        IF starts = {} THEN [found |-> FALSE, group |-> <<>>]
        ELSE LET i == CHOOSE m \in starts : \A o \in starts : m <= o IN
                 [found |-> TRUE, group |-> SubSeq(s, i, DigitRunEnd(s, i) - 1)]

\* _extract_months with `elif months_match`: the months count only when no
\* year group is found
_extract_months_elif(exp_str) ==
    IF ~IsStr(exp_str) THEN 0
    ELSE LET years_match == Search(exp_str.s, YEAR_WORDS)
             months_match == Search(exp_str.s, MONTH_WORDS)
         IN  IF years_match.found THEN int(years_match.group) * 12
             ELSE IF months_match.found THEN int(months_match.group) ELSE 0

\* ExperienceExtractorStage._extract_months(exp_str)
_extract_months(exp_str) ==
    IF ~IsStr(exp_str) THEN 0
    ELSE LET years_match == Search(exp_str.s, YEAR_WORDS)
             months_match == Search(exp_str.s, MONTH_WORDS)
         IN  (IF years_match.found THEN int(years_match.group) * 12 ELSE 0)
             + (IF months_match.found THEN int(months_match.group) ELSE 0)

----------------------------------------------------------------------------
(* transformations/feature_extractors.py: PersonalInfoExtractorStage        *)

MALE_LITERALS ==
    << <<1052, 1091, 1078, 1095, 1080, 1085, 1072>>   \* 'Мужчина'
     , <<77, 97, 108, 101>>   \* 'Male'
    >>

month_map ==
    << [key |-> <<74, 97, 110, 117, 97, 114, 121>>, value |-> 0]   \* 'January': 0
     , [key |-> <<1103, 1085, 1074, 1072, 1088, 1103>>, value |-> 0]   \* 'января': 0
     , [key |-> <<70, 101, 98, 114, 117, 97, 114, 121>>, value |-> 1]   \* 'February': 1
     , [key |-> <<1092, 1077, 1074, 1088, 1072, 1083, 1103>>, value |-> 1]   \* 'февраля': 1
     , [key |-> <<77, 97, 114, 99, 104>>, value |-> 2]   \* 'March': 2
     , [key |-> <<1084, 1072, 1088, 1090, 1072>>, value |-> 2]   \* 'марта': 2
     , [key |-> <<65, 112, 114, 105, 108>>, value |-> 3]   \* 'April': 3
     , [key |-> <<1072, 1087, 1088, 1077, 1083, 1103>>, value |-> 3]   \* 'апреля': 3
     , [key |-> <<77, 97, 121>>, value |-> 4]   \* 'May': 4
     , [key |-> <<1084, 1072, 1103>>, value |-> 4]   \* 'мая': 4
     , [key |-> <<74, 117, 110, 101>>, value |-> 5]   \* 'June': 5
     , [key |-> <<1080, 1102, 1085, 1103>>, value |-> 5]   \* 'июня': 5
     , [key |-> <<74, 117, 108, 121>>, value |-> 6]   \* 'July': 6
     , [key |-> <<1080, 1102, 1083, 1103>>, value |-> 6]   \* 'июля': 6
     , [key |-> <<65, 117, 103, 117, 115, 116>>, value |-> 7]   \* 'August': 7
     , [key |-> <<1072, 1074, 1075, 1091, 1089, 1090, 1072>>, value |-> 7]   \* 'августа': 7
     , [key |-> <<83, 101, 112, 116, 101, 109, 98, 101, 114>>, value |-> 8]   \* 'September': 8
     , [key |-> <<1089, 1077, 1085, 1090, 1103, 1073, 1088, 1103>>, value |-> 8]   \* 'сентября': 8
     , [key |-> <<79, 99, 116, 111, 98, 101, 114>>, value |-> 9]   \* 'October': 9
     , [key |-> <<1086, 1082, 1090, 1103, 1073, 1088, 1103>>, value |-> 9]   \* 'октября': 9
     , [key |-> <<78, 111, 118, 101, 109, 98, 101, 114>>, value |-> 10]   \* 'November': 10
     , [key |-> <<1085, 1086, 1103, 1073, 1088, 1103>>, value |-> 10]   \* 'ноября': 10
     , [key |-> <<68, 101, 99, 101, 109, 98, 101, 114>>, value |-> 11]   \* 'December': 11
     , [key |-> <<1076, 1077, 1082, 1072, 1073, 1088, 1103>>, value |-> 11]   \* 'декабря': 11
    >>

\* dict.get(key, default) on a sequence of [key, value] entries
MapGet(map, key, default) ==
    IF \E i \in 1..Len(map) : map[i].key = key
    THEN map[CHOOSE i \in 1..Len(map) : map[i].key = key].value
    ELSE default

\* PersonalInfoExtractorStage._parse_gender(value)
_parse_gender(value) ==
    IF ~IsStr(value) THEN 0
    ELSE LET gender_part == strip(split(value.s, 44)[1]) IN
        IF \E i \in 1..Len(MALE_LITERALS) : MALE_LITERALS[i] = gender_part
        THEN 0 ELSE 1

\* PersonalInfoExtractorStage._parse_age(value)
_parse_age(value) ==
    IF ~IsStr(value) THEN -1
    ELSE LET parts == split(value.s, 44) IN
        IF Len(parts) < 2 THEN -1
        ELSE LET age_str == split(replace(strip(parts[2]), 160, 32), 32)[1] IN
            IF IntParses(age_str) THEN int(age_str) ELSE -1

\* the whitespace tokens of the third comma-separated part
BirthTokens(value) == split(replace(strip(split(value.s, 44)[3]), 160, 32), 32)

\* _parse_birth_month(value) raises IndexError: the index [-2] is out of range
BirthMonthRaises(value) ==
    /\ IsStr(value)
    /\ Len(split(value.s, 44)) >= 3
    /\ Len(BirthTokens(value)) < 2

\* PersonalInfoExtractorStage._parse_birth_month(value), when it returns
_parse_birth_month(value) ==
    IF ~IsStr(value) THEN -1
    ELSE IF Len(split(value.s, 44)) < 3 THEN -1
    ELSE LET month_str == BirthTokens(value)[Len(BirthTokens(value)) - 1] IN
        MapGet(month_map, month_str, -1)

----------------------------------------------------------------------------
(* transformations/feature_extractors.py: SalaryExtractorStage              *)

\* rates are kept in thousandths: 73.35 is 73350
CURRENCY_RATES ==
    << [key |-> <<1088, 1091, 1073, 46>>, rate |-> 1000]   \* 'руб.': 1.0
     , [key |-> <<85, 83, 68>>, rate |-> 73350]   \* 'USD': 73.35
     , [key |-> <<82, 85, 66>>, rate |-> 1000]   \* 'RUB': 1.0
     , [key |-> <<75, 90, 84>>, rate |-> 180]   \* 'KZT': 0.18
     , [key |-> <<1073, 1077, 1083, 46, 32, 1088, 1091, 1073, 46>>, rate |-> 2280]   \* 'бел. руб.': 2.28
     , [key |-> <<69, 85, 82>>, rate |-> 85860]   \* 'EUR': 85.86
     , [key |-> <<1075, 1088, 1085, 46>>, rate |-> 2720]   \* 'грн.': 2.72
     , [key |-> <<1089, 1091, 1084>>, rate |-> 5]   \* 'сум': 0.005
     , [key |-> <<75, 71, 83>>, rate |-> 980]   \* 'KGS': 0.98
     , [key |-> <<85, 65, 72>>, rate |-> 2500]   \* 'UAH': 2.5
     , [key |-> <<66, 89, 78>>, rate |-> 2500]   \* 'BYN': 2.5
     , [key |-> <<65, 90, 78>>, rate |-> 41100]   \* 'AZN': 41.1
     , [key |-> <<115, 111, 109>>, rate |-> 5]   \* 'som': 0.005
    >>

\* the rate used for a descriptor CURRENCY_RATES does not list: 1.0
DEFAULT_RATE == 1000

\* a Python float, in thousandths
Float(m) == [t |-> "float", m |-> m]

\* number of leading tokens that are all digits
RECURSIVE DigitTokens(_)
DigitTokens(tokens) ==
    IF tokens = <<>> \/ ~isdigit(Head(tokens)) THEN 0
    ELSE 1 + DigitTokens(Tail(tokens))

\* the concatenation of the tokens
RECURSIVE Concat(_)
Concat(tokens) == IF tokens = <<>> THEN <<>> ELSE Head(tokens) \o Concat(Tail(tokens))

\* CURRENCY_RATES.get(currency, 1.0)
RateOf(currency) ==
    IF \E i \in 1..Len(CURRENCY_RATES) : CURRENCY_RATES[i].key = currency
    THEN CURRENCY_RATES[CHOOSE i \in 1..Len(CURRENCY_RATES) :
                            CURRENCY_RATES[i].key = currency].rate
    ELSE DEFAULT_RATE

\* _normalize_salary taking the first non-digit token alone as the descriptor
_normalize_salary_first_token(salary_str) ==
    IF ~IsStr(salary_str) THEN 0
    ELSE LET cleaned == split(strip(replace(salary_str.s, 160, 32)), 32)
             n == DigitTokens(cleaned)
             digits == Concat(SubSeq(cleaned, 1, n))
             currency == IF n < Len(cleaned) THEN cleaned[n + 1] ELSE <<>>
         IN  IF digits = <<>> THEN 0
             ELSE IF \A i \in 1..Len(digits) : IsDecimal(digits[i])
                  THEN DecimalValue(digits) * RateOf(strip(currency))
                  ELSE 0

\* SalaryExtractorStage._normalize_salary(salary_str), in thousandths
_normalize_salary(salary_str) ==
    IF ~IsStr(salary_str) THEN 0
    ELSE LET cleaned == split(strip(replace(salary_str.s, 160, 32)), 32)
             n == DigitTokens(cleaned)
             digits == Concat(SubSeq(cleaned, 1, n))
             currency == IF n < Len(cleaned)
                         THEN join(SubSeq(cleaned, n + 1, Len(cleaned)), 32)
                         ELSE <<>>
         IN  IF digits = <<>> THEN 0
             ELSE IF \A i \in 1..Len(digits) : IsDecimal(digits[i])
                  THEN DecimalValue(digits) * RateOf(strip(currency))
                  ELSE 0

----------------------------------------------------------------------------
(* transformations/feature_extractors.py: LocationExtractorStage            *)

REGION_MAPPING ==
    << [region |-> <<77, 111, 115, 99, 111, 119, 32, 38, 32, 79, 98, 108, 97, 115, 116>>,   \* 'Moscow & Oblast'
        cities |-> <<
            <<1052, 1086, 1089, 1082, 1074, 1072>>,   \* 'Москва'
            <<77, 111, 115, 99, 111, 119>>,   \* 'Moscow'
            <<1047, 1077, 1083, 1077, 1085, 1086, 1075, 1088, 1072, 1076>>,   \* 'Зеленоград'
            <<1055, 1086, 1076, 1086, 1083, 1100, 1089, 1082>>,   \* 'Подольск'
            <<1041, 1072, 1083, 1072, 1096, 1080, 1093, 1072>>,   \* 'Балашиха'
            <<1061, 1080, 1084, 1082, 1080>>,   \* 'Химки'
            <<1052, 1099, 1090, 1080, 1097, 1080>>,   \* 'Мытищи'
            <<1050, 1086, 1088, 1086, 1083, 1077, 1074>>,   \* 'Королев'
            <<1051, 1102, 1073, 1077, 1088, 1094, 1099>>,   \* 'Люберцы'
            <<1050, 1088, 1072, 1089, 1085, 1086, 1075, 1086, 1088, 1089, 1082>>,   \* 'Красногорск'
            <<1054, 1076, 1080, 1085, 1094, 1086, 1074, 1086>>,   \* 'Одинцово'
            <<1044, 1086, 1084, 1086, 1076, 1077, 1076, 1086, 1074, 1086>>,   \* 'Домодедово'
            <<1065, 1077, 1083, 1082, 1086, 1074, 1086>>,   \* 'Щелково'
            <<1057, 1077, 1088, 1087, 1091, 1093, 1086, 1074>>,   \* 'Серпухов'
            <<1056, 1072, 1084, 1077, 1085, 1089, 1082, 1086, 1077>>,   \* 'Раменское'
            <<1044, 1086, 1083, 1075, 1086, 1087, 1088, 1091, 1076, 1085, 1099, 1081>>,   \* 'Долгопрудный'
            <<1056, 1077, 1091, 1090, 1086, 1074>>,   \* 'Реутов'
            <<1055, 1091, 1096, 1082, 1080, 1085, 1086>>,   \* 'Пушкино'
            <<1051, 1086, 1073, 1085, 1103>>   \* 'Лобня'
        >>]
     , [region |-> <<83, 97, 105, 110, 116, 32, 80, 101, 116, 101, 114, 115, 98, 117, 114, 103, 32, 38, 32, 79, 98, 108, 97, 115, 116>>,   \* 'Saint Petersburg & Oblast'
        cities |-> <<
            <<1057, 1072, 1085, 1082, 1090, 45, 1055, 1077, 1090, 1077, 1088, 1073, 1091, 1088, 1075>>,   \* 'Санкт-Петербург'
            <<83, 97, 105, 110, 116, 32, 80, 101, 116, 101, 114, 115, 98, 117, 114, 103>>,   \* 'Saint Petersburg'
            <<1043, 1072, 1090, 1095, 1080, 1085, 1072>>,   \* 'Гатчина'
            <<1042, 1099, 1073, 1086, 1088, 1075>>,   \* 'Выборг'
            <<1042, 1089, 1077, 1074, 1086, 1083, 1086, 1078, 1089, 1082>>,   \* 'Всеволожск'
            <<1057, 1086, 1089, 1085, 1086, 1074, 1099, 1081, 32, 1041, 1086, 1088>>,   \* 'Сосновый Бор'
            <<1050, 1080, 1088, 1080, 1096, 1080>>,   \* 'Кириши'
            <<1058, 1080, 1093, 1074, 1080, 1085>>,   \* 'Тихвин'
            <<1057, 1077, 1088, 1090, 1086, 1083, 1086, 1074, 1086>>   \* 'Сертолово'
        >>]
     , [region |-> <<67, 101, 110, 116, 114, 97, 108, 32, 70, 101, 100, 101, 114, 97, 108, 32, 68, 105, 115, 116, 114, 105, 99, 116>>,   \* 'Central Federal District'
        cities |-> <<
            <<1042, 1086, 1088, 1086, 1085, 1077, 1078>>,   \* 'Воронеж'
            <<1071, 1088, 1086, 1089, 1083, 1072, 1074, 1083, 1100>>,   \* 'Ярославль'
            <<1056, 1103, 1079, 1072, 1085, 1100>>,   \* 'Рязань'
            <<1058, 1074, 1077, 1088, 1100>>,   \* 'Тверь'
            <<1058, 1091, 1083, 1072>>,   \* 'Тула'
            <<1051, 1080, 1087, 1077, 1094, 1082>>,   \* 'Липецк'
            <<1050, 1091, 1088, 1089, 1082>>,   \* 'Курск'
            <<1041, 1088, 1103, 1085, 1089, 1082>>,   \* 'Брянск'
            <<1048, 1074, 1072, 1085, 1086, 1074, 1086>>,   \* 'Иваново'
            <<1041, 1077, 1083, 1075, 1086, 1088, 1086, 1076>>,   \* 'Белгород'
            <<1042, 1083, 1072, 1076, 1080, 1084, 1080, 1088>>,   \* 'Владимир'
            <<1050, 1072, 1083, 1091, 1075, 1072>>,   \* 'Калуга'
            <<1054, 1088, 1077, 1083>>,   \* 'Орел'
            <<1057, 1084, 1086, 1083, 1077, 1085, 1089, 1082>>,   \* 'Смоленск'
            <<1058, 1072, 1084, 1073, 1086, 1074>>,   \* 'Тамбов'
            <<1050, 1086, 1089, 1090, 1088, 1086, 1084, 1072>>,   \* 'Кострома'
            <<1057, 1090, 1072, 1088, 1099, 1081, 32, 1054, 1089, 1082, 1086, 1083>>   \* 'Старый Оскол'
        >>]
     , [region |-> <<86, 111, 108, 103, 97, 32, 70, 101, 100, 101, 114, 97, 108, 32, 68, 105, 115, 116, 114, 105, 99, 116>>,   \* 'Volga Federal District'
        cities |-> <<
            <<1050, 1072, 1079, 1072, 1085, 1100>>,   \* 'Казань'
            <<75, 97, 122, 97, 110>>,   \* 'Kazan'
            <<1053, 1080, 1078, 1085, 1080, 1081, 32, 1053, 1086, 1074, 1075, 1086, 1088, 1086, 1076>>,   \* 'Нижний Новгород'
            <<1057, 1072, 1084, 1072, 1088, 1072>>,   \* 'Самара'
            <<1059, 1092, 1072>>,   \* 'Уфа'
            <<1055, 1077, 1088, 1084, 1100>>,   \* 'Пермь'
            <<1057, 1072, 1088, 1072, 1090, 1086, 1074>>,   \* 'Саратов'
            <<1058, 1086, 1083, 1100, 1103, 1090, 1090, 1080>>,   \* 'Тольятти'
            <<1048, 1078, 1077, 1074, 1089, 1082>>,   \* 'Ижевск'
            <<1059, 1083, 1100, 1103, 1085, 1086, 1074, 1089, 1082>>,   \* 'Ульяновск'
            <<1054, 1088, 1077, 1085, 1073, 1091, 1088, 1075>>,   \* 'Оренбург'
            <<1055, 1077, 1085, 1079, 1072>>,   \* 'Пенза'
            <<1053, 1072, 1073, 1077, 1088, 1077, 1078, 1085, 1099, 1077, 32, 1063, 1077, 1083, 1085, 1099>>,   \* 'Набережные Челны'
            <<1063, 1077, 1073, 1086, 1082, 1089, 1072, 1088, 1099>>,   \* 'Чебоксары'
            <<1050, 1080, 1088, 1086, 1074>>,   \* 'Киров'
            <<1057, 1072, 1088, 1072, 1085, 1089, 1082>>,   \* 'Саранск'
            <<1057, 1090, 1077, 1088, 1083, 1080, 1090, 1072, 1084, 1072, 1082>>,   \* 'Стерлитамак'
            <<1049, 1086, 1096, 1082, 1072, 1088, 45, 1054, 1083, 1072>>   \* 'Йошкар-Ола'
        >>]
     , [region |-> <<83, 111, 117, 116, 104, 32, 97, 110, 100, 32, 78, 111, 114, 116, 104, 32, 67, 97, 117, 99, 97, 115, 117, 115, 32, 70, 101, 100, 101, 114, 97, 108, 32, 68, 105, 115, 116, 114, 105, 99, 116>>,   \* 'South and North Caucasus Federal District'
        cities |-> <<
            <<1050, 1088, 1072, 1089, 1085, 1086, 1076, 1072, 1088>>,   \* 'Краснодар'
            <<1056, 1086, 1089, 1090, 1086, 1074, 45, 1085, 1072, 45, 1044, 1086, 1085, 1091>>,   \* 'Ростов-на-Дону'
            <<1042, 1086, 1083, 1075, 1086, 1075, 1088, 1072, 1076>>,   \* 'Волгоград'
            <<1057, 1086, 1095, 1080>>,   \* 'Сочи'
            <<1057, 1090, 1072, 1074, 1088, 1086, 1087, 1086, 1083, 1100>>,   \* 'Ставрополь'
            <<1040, 1089, 1090, 1088, 1072, 1093, 1072, 1085, 1100>>,   \* 'Астрахань'
            <<1057, 1077, 1074, 1072, 1089, 1090, 1086, 1087, 1086, 1083, 1100>>,   \* 'Севастополь'
            <<1057, 1080, 1084, 1092, 1077, 1088, 1086, 1087, 1086, 1083, 1100>>,   \* 'Симферополь'
            <<1053, 1086, 1074, 1086, 1088, 1086, 1089, 1089, 1080, 1081, 1089, 1082>>,   \* 'Новороссийск'
            <<1058, 1072, 1075, 1072, 1085, 1088, 1086, 1075>>,   \* 'Таганрог'
            <<1052, 1072, 1093, 1072, 1095, 1082, 1072, 1083, 1072>>,   \* 'Махачкала'
            <<1042, 1083, 1072, 1076, 1080, 1082, 1072, 1074, 1082, 1072, 1079>>,   \* 'Владикавказ'
            <<1043, 1088, 1086, 1079, 1085, 1099, 1081>>,   \* 'Грозный'
            <<1052, 1072, 1081, 1082, 1086, 1087>>,   \* 'Майкоп'
            <<1055, 1103, 1090, 1080, 1075, 1086, 1088, 1089, 1082>>   \* 'Пятигорск'
        >>]
     , [region |-> <<85, 114, 97, 108, 32, 70, 101, 100, 101, 114, 97, 108, 32, 68, 105, 115, 116, 114, 105, 99, 116>>,   \* 'Ural Federal District'
        cities |-> <<
            <<1045, 1082, 1072, 1090, 1077, 1088, 1080, 1085, 1073, 1091, 1088, 1075>>,   \* 'Екатеринбург'
            <<89, 101, 107, 97, 116, 101, 114, 105, 110, 98, 117, 114, 103>>,   \* 'Yekaterinburg'
            <<1063, 1077, 1083, 1103, 1073, 1080, 1085, 1089, 1082>>,   \* 'Челябинск'
            <<1058, 1102, 1084, 1077, 1085, 1100>>,   \* 'Тюмень'
            <<1052, 1072, 1075, 1085, 1080, 1090, 1086, 1075, 1086, 1088, 1089, 1082>>,   \* 'Магнитогорск'
            <<1057, 1091, 1088, 1075, 1091, 1090>>,   \* 'Сургут'
            <<1053, 1080, 1078, 1085, 1077, 1074, 1072, 1088, 1090, 1086, 1074, 1089, 1082>>,   \* 'Нижневартовск'
            <<1050, 1091, 1088, 1075, 1072, 1085>>,   \* 'Курган'
            <<1053, 1086, 1074, 1099, 1081, 32, 1059, 1088, 1077, 1085, 1075, 1086, 1081>>,   \* 'Новый Уренгой'
            <<1053, 1086, 1103, 1073, 1088, 1100, 1089, 1082>>,   \* 'Ноябрьск'
            <<1061, 1072, 1085, 1090, 1099, 45, 1052, 1072, 1085, 1089, 1080, 1081, 1089, 1082>>   \* 'Ханты-Мансийск'
        >>]
     , [region |-> <<83, 105, 98, 101, 114, 105, 97, 110, 32, 70, 101, 100, 101, 114, 97, 108, 32, 68, 105, 115, 116, 114, 105, 99, 116>>,   \* 'Siberian Federal District'
        cities |-> <<
            <<1053, 1086, 1074, 1086, 1089, 1080, 1073, 1080, 1088, 1089, 1082>>,   \* 'Новосибирск'
            <<78, 111, 118, 111, 115, 105, 98, 105, 114, 115, 107>>,   \* 'Novosibirsk'
            <<1050, 1088, 1072, 1089, 1085, 1086, 1103, 1088, 1089, 1082>>,   \* 'Красноярск'
            <<1054, 1084, 1089, 1082>>,   \* 'Омск'
            <<1058, 1086, 1084, 1089, 1082>>,   \* 'Томск'
            <<1041, 1072, 1088, 1085, 1072, 1091, 1083>>,   \* 'Барнаул'
            <<1048, 1088, 1082, 1091, 1090, 1089, 1082>>,   \* 'Иркутск'
            <<1050, 1077, 1084, 1077, 1088, 1086, 1074, 1086>>,   \* 'Кемерово'
            <<1053, 1086, 1074, 1086, 1082, 1091, 1079, 1085, 1077, 1094, 1082>>,   \* 'Новокузнецк'
            <<1040, 1073, 1072, 1082, 1072, 1085>>,   \* 'Абакан'
            <<1041, 1088, 1072, 1090, 1089, 1082>>,   \* 'Братск'
            <<1040, 1085, 1075, 1072, 1088, 1089, 1082>>   \* 'Ангарск'
        >>]
     , [region |-> <<70, 97, 114, 32, 69, 97, 115, 116, 101, 114, 110, 32, 70, 101, 100, 101, 114, 97, 108, 32, 68, 105, 115, 116, 114, 105, 99, 116>>,   \* 'Far Eastern Federal District'
        cities |-> <<
            <<1042, 1083, 1072, 1076, 1080, 1074, 1086, 1089, 1090, 1086, 1082>>,   \* 'Владивосток'
            <<1061, 1072, 1073, 1072, 1088, 1086, 1074, 1089, 1082>>,   \* 'Хабаровск'
            <<1059, 1083, 1072, 1085, 45, 1059, 1076, 1101>>,   \* 'Улан-Удэ'
            <<1063, 1080, 1090, 1072>>,   \* 'Чита'
            <<1041, 1083, 1072, 1075, 1086, 1074, 1077, 1097, 1077, 1085, 1089, 1082>>,   \* 'Благовещенск'
            <<1071, 1082, 1091, 1090, 1089, 1082>>,   \* 'Якутск'
            <<1055, 1077, 1090, 1088, 1086, 1087, 1072, 1074, 1083, 1086, 1074, 1089, 1082, 45, 1050, 1072, 1084, 1095, 1072, 1090, 1089, 1082, 1080, 1081>>,   \* 'Петропавловск-Камчатский'
            <<1070, 1078, 1085, 1086, 45, 1057, 1072, 1093, 1072, 1083, 1080, 1085, 1089, 1082>>,   \* 'Южно-Сахалинск'
            <<1053, 1072, 1093, 1086, 1076, 1082, 1072>>   \* 'Находка'
        >>]
     , [region |-> <<75, 97, 122, 97, 107, 104, 115, 116, 97, 110>>,   \* 'Kazakhstan'
        cities |-> <<
            <<1040, 1083, 1084, 1072, 1090, 1099>>,   \* 'Алматы'
            <<65, 108, 109, 97, 116, 121>>,   \* 'Almaty'
            <<1053, 1091, 1088, 45, 1057, 1091, 1083, 1090, 1072, 1085>>,   \* 'Нур-Султан'
            <<1040, 1089, 1090, 1072, 1085, 1072>>,   \* 'Астана'
            <<65, 115, 116, 97, 110, 97>>,   \* 'Astana'
            <<1064, 1099, 1084, 1082, 1077, 1085, 1090>>,   \* 'Шымкент'
            <<1040, 1082, 1090, 1086, 1073, 1077>>,   \* 'Актобе'
            <<1050, 1072, 1088, 1072, 1075, 1072, 1085, 1076, 1072>>,   \* 'Караганда'
            <<1040, 1090, 1099, 1088, 1072, 1091>>,   \* 'Атырау'
            <<1040, 1082, 1090, 1072, 1091>>,   \* 'Актау'
            <<1055, 1072, 1074, 1083, 1086, 1076, 1072, 1088>>,   \* 'Павлодар'
            <<1059, 1088, 1072, 1083, 1100, 1089, 1082>>   \* 'Уральск'
        >>]
     , [region |-> <<66, 101, 108, 97, 114, 117, 115>>,   \* 'Belarus'
        cities |-> <<
            <<1052, 1080, 1085, 1089, 1082>>,   \* 'Минск'
            <<77, 105, 110, 115, 107>>,   \* 'Minsk'
            <<1043, 1086, 1084, 1077, 1083, 1100>>,   \* 'Гомель'
            <<1042, 1080, 1090, 1077, 1073, 1089, 1082>>,   \* 'Витебск'
            <<1052, 1086, 1075, 1080, 1083, 1077, 1074>>,   \* 'Могилев'
            <<1043, 1088, 1086, 1076, 1085, 1086>>,   \* 'Гродно'
            <<1041, 1088, 1077, 1089, 1090>>   \* 'Брест'
        >>]
     , [region |-> <<79, 116, 104, 101, 114, 32, 99, 111, 117, 110, 116, 114, 105, 101, 115, 32, 47, 32, 67, 73, 83>>,   \* 'Other countries / CIS'
        cities |-> <<
            <<1050, 1080, 1077, 1074>>,   \* 'Киев'
            <<75, 121, 105, 118>>,   \* 'Kyiv'
            <<1058, 1072, 1096, 1082, 1077, 1085, 1090>>,   \* 'Ташкент'
            <<1041, 1080, 1096, 1082, 1077, 1082>>,   \* 'Бишкек'
            <<1058, 1073, 1080, 1083, 1080, 1089, 1080>>,   \* 'Тбилиси'
            <<1041, 1072, 1082, 1091>>,   \* 'Баку'
            <<1045, 1088, 1077, 1074, 1072, 1085>>,   \* 'Ереван'
            <<1056, 1080, 1075, 1072>>,   \* 'Рига'
            <<1042, 1080, 1083, 1100, 1085, 1102, 1089>>   \* 'Вильнюс'
        >>]
    >>

\* 'Other'
OTHER_REGION == <<79, 116, 104, 101, 114>>

\* _categorize_city comparing lowercased names
_categorize_city_lower(city_str) ==
    IF ~IsStr(city_str) THEN OTHER_REGION
    ELSE LET city_name == lower(strip(split(city_str.s, 44)[1]))
             hits == {r \in 1..Len(REGION_MAPPING) :
                         \E c \in 1..Len(REGION_MAPPING[r].cities) :
                             lower(REGION_MAPPING[r].cities[c]) = city_name}
         IN  IF hits = {} THEN OTHER_REGION
             ELSE REGION_MAPPING[CHOOSE r \in hits : \A o \in hits : r <= o].region

\* LocationExtractorStage._categorize_city(city_str)
_categorize_city(city_str) ==
    IF ~IsStr(city_str) THEN OTHER_REGION
    ELSE LET city_name == strip(split(city_str.s, 44)[1])
             hits == {r \in 1..Len(REGION_MAPPING) :
                         \E c \in 1..Len(REGION_MAPPING[r].cities) :
                             REGION_MAPPING[r].cities[c] = city_name}
         IN  IF hits = {} THEN OTHER_REGION
             ELSE REGION_MAPPING[CHOOSE r \in hits : \A o \in hits : r <= o].region

----------------------------------------------------------------------------
(* transformations/feature_extractors.py: Employment / Schedule / Education *)

EMPLOYMENT_TYPES ==
    << [type |-> <<102, 117, 108, 108, 95, 116, 105, 109, 101>>, keywords |-> << <<1087, 1086, 1083, 1085, 1072, 1103, 32, 1079, 1072, 1085, 1103, 1090, 1086, 1089, 1090, 1100>>, <<102, 117, 108, 108, 32, 116, 105, 109, 101>> >>]   \* 'full_time': ['полная занятость', 'full time']
     , [type |-> <<112, 97, 114, 116, 95, 116, 105, 109, 101>>, keywords |-> << <<1095, 1072, 1089, 1090, 1080, 1095, 1085, 1072, 1103, 32, 1079, 1072, 1085, 1103, 1090, 1086, 1089, 1090, 1100>>, <<112, 97, 114, 116, 32, 116, 105, 109, 101>> >>]   \* 'part_time': ['частичная занятость', 'part time']
     , [type |-> <<112, 114, 111, 106, 101, 99, 116>>, keywords |-> << <<1087, 1088, 1086, 1077, 1082, 1090, 1085, 1072, 1103, 32, 1088, 1072, 1073, 1086, 1090, 1072>>, <<112, 114, 111, 106, 101, 99, 116, 32, 119, 111, 114, 107>> >>]   \* 'project': ['проектная работа', 'project work']
     , [type |-> <<105, 110, 116, 101, 114, 110, 115, 104, 105, 112>>, keywords |-> << <<1089, 1090, 1072, 1078, 1080, 1088, 1086, 1074, 1082, 1072>>, <<119, 111, 114, 107, 32, 112, 108, 97, 99, 101, 109, 101, 110, 116>> >>]   \* 'internship': ['стажировка', 'work placement']
     , [type |-> <<118, 111, 108, 117, 110, 116, 101, 101, 114, 105, 110, 103>>, keywords |-> << <<1074, 1086, 1083, 1086, 1085, 1090, 1077, 1088, 1089, 1090, 1074, 1086>>, <<118, 111, 108, 117, 110, 116, 101, 101, 114, 105, 110, 103>> >>]   \* 'volunteering': ['волонтерство', 'volunteering']
    >>

SCHEDULE_TYPES ==
    << [type |-> <<102, 117, 108, 108, 95, 100, 97, 121>>, keywords |-> << <<1087, 1086, 1083, 1085, 1099, 1081, 32, 1076, 1077, 1085, 1100>>, <<102, 117, 108, 108, 32, 100, 97, 121>> >>]   \* 'full_day': ['полный день', 'full day']
     , [type |-> <<102, 108, 101, 120, 105, 98, 108, 101>>, keywords |-> << <<1075, 1080, 1073, 1082, 1080, 1081, 32, 1075, 1088, 1072, 1092, 1080, 1082>>, <<102, 108, 101, 120, 105, 98, 108, 101, 32, 115, 99, 104, 101, 100, 117, 108, 101>> >>]   \* 'flexible': ['гибкий график', 'flexible schedule']
     , [type |-> <<115, 104, 105, 102, 116>>, keywords |-> << <<1089, 1084, 1077, 1085, 1085, 1099, 1081, 32, 1075, 1088, 1072, 1092, 1080, 1082>>, <<115, 104, 105, 102, 116, 32, 115, 99, 104, 101, 100, 117, 108, 101>> >>]   \* 'shift': ['сменный график', 'shift schedule']
     , [type |-> <<114, 101, 109, 111, 116, 101>>, keywords |-> << <<1091, 1076, 1072, 1083, 1077, 1085, 1085, 1072, 1103, 32, 1088, 1072, 1073, 1086, 1090, 1072>>, <<114, 101, 109, 111, 116, 101, 32, 119, 111, 114, 107, 105, 110, 103>> >>]   \* 'remote': ['удаленная работа', 'remote working']
     , [type |-> <<114, 111, 116, 97, 116, 105, 111, 110>>, keywords |-> << <<1074, 1072, 1093, 1090, 1086, 1074, 1099, 1081, 32, 1084, 1077, 1090, 1086, 1076>>, <<114, 111, 116, 97, 116, 105, 111, 110, 32, 98, 97, 115, 101, 100, 32, 119, 111, 114, 107>> >>]   \* 'rotation': ['вахтовый метод', 'rotation based work']
    >>

EDUCATION_LEVELS ==
    << [type |-> <<105, 110, 99, 111, 109, 112, 108, 101, 116, 101, 95, 104, 105, 103, 104, 101, 114>>, keywords |-> << <<1085, 1077, 1086, 1082, 1086, 1085, 1095, 1077, 1085, 1085, 1086, 1077, 32, 1074, 1099, 1089, 1096, 1077, 1077>>, <<105, 110, 99, 111, 109, 112, 108, 101, 116, 101, 32, 104, 105, 103, 104, 101, 114>> >>]   \* 'incomplete_higher': ['неоконченное высшее', 'incomplete higher']
     , [type |-> <<104, 105, 103, 104, 101, 114>>, keywords |-> << <<1074, 1099, 1089, 1096, 1077, 1077, 32, 1086, 1073, 1088, 1072, 1079, 1086, 1074, 1072, 1085, 1080, 1077>>, <<104, 105, 103, 104, 101, 114, 32, 101, 100, 117, 99, 97, 116, 105, 111, 110>> >>]   \* 'higher': ['высшее образование', 'higher education']
     , [type |-> <<115, 101, 99, 111, 110, 100, 97, 114, 121, 95, 115, 112, 101, 99, 105, 97, 108>>, keywords |-> << <<1089, 1088, 1077, 1076, 1085, 1077, 1077, 32, 1089, 1087, 1077, 1094, 1080, 1072, 1083, 1100, 1085, 1086, 1077>>, <<115, 101, 99, 111, 110, 100, 97, 114, 121, 32, 115, 112, 101, 99, 105, 97, 108>> >>]   \* 'secondary_special': ['среднее специальное', 'secondary special']
     , [type |-> <<115, 101, 99, 111, 110, 100, 97, 114, 121>>, keywords |-> << <<1089, 1088, 1077, 1076, 1085, 1077, 1077, 32, 1086, 1073, 1088, 1072, 1079, 1086, 1074, 1072, 1085, 1080, 1077>>, <<115, 101, 99, 111, 110, 100, 97, 114, 121, 32, 101, 100, 117, 99, 97, 116, 105, 111, 110>> >>]   \* 'secondary': ['среднее образование', 'secondary education']
    >>

\* the lambda without .lower(): phrases are matched case-sensitively
KeywordFlag_case_sensitive(x, keywords) == IF AnyIn(keywords, str(x)) THEN 1 ELSE 0

\* the lambda of the three stages: 1 if any(kw in str(x).lower()) else 0
KeywordFlag(x, keywords) == IF AnyIn(keywords, lower(str(x))) THEN 1 ELSE 0

----------------------------------------------------------------------------
(* transformations/feature_extractors.py: MiscExtractorStage                *)

\* 'Имеется собственный автомобиль'
CAR_LITERAL == <<1048, 1084, 1077, 1077, 1090, 1089, 1103, 32, 1089, 1086, 1073, 1089, 1090, 1074, 1077, 1085, 1085, 1099, 1081, 32, 1072, 1074, 1090, 1086, 1084, 1086, 1073, 1080, 1083, 1100>>

\* a cutoff year that moves between two runs, as one taken from the clock
OLD_RESUME_YEAR_moving == IF fn_ret = None THEN 2018 ELSE 2019

\* the cutoff year of _is_old_resume
OLD_RESUME_YEAR == 2018

\* _is_old_resume with `year < 2018`
_is_old_resume_strict(date_str) ==
    IF ~IsStr(date_str) THEN 0
    ELSE LET parts == split(date_str.s, 46) IN
        IF Len(parts) < 3 THEN 0
        ELSE LET year_str == split(parts[3], 32)[1] IN
            IF ~IntParses(year_str) THEN 0
            ELSE IF int(year_str) < OLD_RESUME_YEAR THEN 1 ELSE 0

\* MiscExtractorStage._is_old_resume(date_str)
_is_old_resume(date_str) ==
    IF ~IsStr(date_str) THEN 0
    ELSE LET parts == split(date_str.s, 46) IN
        IF Len(parts) < 3 THEN 0
        ELSE LET year_str == split(parts[3], 32)[1] IN
            IF ~IntParses(year_str) THEN 0
            ELSE IF int(year_str) <= OLD_RESUME_YEAR THEN 1 ELSE 0

\* the lambda of the car flag: 1 if x == 'Имеется собственный автомобиль' else 0
CarFlag(x) == IF IsStr(x) /\ x.s = CAR_LITERAL THEN 1 ELSE 0

----------------------------------------------------------------------------
(* pandas DataFrame: the ordered column names, the dtype of every column    *)
(* and the ordered rows; a row carries its index label (id) and its cells.  *)

Range(seq) == {seq[i] : i \in DOMAIN seq}

\* df.columns, as a set
Columns(df) == Range(df.cols)

\* len(df)
RowCount(df) == Len(df.rows)

\* the index labels of the rows, in row order
RowIds(df) == [i \in 1..Len(df.rows) |-> df.rows[i].id]

\* df[col].values
Values(df, col) == [i \in 1..Len(df.rows) |-> df.rows[i].cells[col]]

\* dtype pandas infers for a column of these values; an empty result of
\* Series.apply keeps the dtype it is given
InferDtype(values, empty_dtype) ==
    IF Len(values) = 0 THEN empty_dtype
    ELSE IF \E i \in 1..Len(values) : values[i].t = "str" THEN "object"
    ELSE IF \E i \in 1..Len(values) : values[i].t \in {"nan", "float"} THEN "float64"
    ELSE "int64"

\* df[col] = values: replaces the column in place or appends a new last column
SetColumn(df, col, values, dtype) ==
    [cols  |-> IF col \in Columns(df) THEN df.cols ELSE Append(df.cols, col),
     dtype |-> [c \in Columns(df) \cup {col} |->
                   IF c = col THEN dtype ELSE df.dtype[c]],
     rows  |-> [i \in 1..Len(df.rows) |->
                   [id    |-> df.rows[i].id,
                    cells |-> [c \in Columns(df) \cup {col} |->
                                  IF c = col THEN values[i]
                                  ELSE df.rows[i].cells[c]]]]]

\* df.drop(columns=...) for columns that exist
DropColumns(df, dropped) ==
    [cols  |-> SelectSeq(df.cols, LAMBDA c : c \notin dropped),
     dtype |-> [c \in Columns(df) \ dropped |-> df.dtype[c]],
     rows  |-> [i \in 1..Len(df.rows) |->
                   [id    |-> df.rows[i].id,
                    cells |-> [c \in Columns(df) \ dropped |->
                                  df.rows[i].cells[c]]]]]

\* the rows whose mask entry is true, in their order
RECURSIVE MaskRows(_, _)
MaskRows(rows, mask) ==
    IF Len(rows) = 0 THEN <<>>
    ELSE (IF mask[1] THEN <<rows[1]>> ELSE <<>>)
         \o MaskRows(SubSeq(rows, 2, Len(rows)), SubSeq(mask, 2, Len(mask)))

\* df[mask]
SelectRows(df, mask) ==
    [cols  |-> df.cols,
     dtype |-> df.dtype,
     rows  |-> MaskRows(df.rows, mask)]

----------------------------------------------------------------------------
(* core.py: DataContainer, and the outcome of a stage's execute             *)

\* DataContainer(): every field at its dataclass default
DataContainer ==
    [raw_data       |-> None,
     processed_data |-> None,
     feature_matrix |-> None,
     target_vector  |-> None,
     feature_labels |-> <<>>,
     metadata       |-> <<>>]

\* a numpy array (the .values of a column or of a frame)
Array(values) == [values |-> values]

\* a two-dimensional numpy array: its rows and its shape (rows, columns)
Array2D(values, ncols) == [values |-> values, shape |-> <<Len(values), ncols>>]

\* a record of the log
LogEntry(level, event, stage, exc) ==
    [level |-> level, event |-> event, stage |-> stage, exc |-> exc]

\* execute returned the container
Return(container) ==
    [raised |-> FALSE, exc |-> "", container |-> container, log |-> <<>>]

\* execute raised; every stage assigns to the container only after its last
\* statement that can raise, so the container is as it was
Raise(exc, container) ==
    [raised |-> TRUE, exc |-> exc, container |-> container, log |-> <<>>]

----------------------------------------------------------------------------
(* transformations/data_loader.py: CSVLoaderStage                           *)

\* CSVLoaderStage.execute: csv is what pd.read_csv yields, a table or an error
CSVLoader_execute(container, csv) ==
    IF csv.failed THEN Raise("OSError", container)
    ELSE Return([container EXCEPT !.raw_data = csv.table,
                                  !.processed_data = csv.table])

----------------------------------------------------------------------------
(* transformations/filters.py: ITDeveloperFilterStage.execute               *)

\* ITDeveloperFilterStage.execute storing the selection in raw_data as well
ITDeveloperFilter_execute_overwrites_raw(container) ==
    LET df == container.processed_data IN
    IF df = None THEN Raise("TypeError", container)
    ELSE IF job_title_col \notin Columns(df) THEN Raise("KeyError", container)
    ELSE LET kept == SelectRows(df, [i \in 1..Len(df.rows) |->
                        _is_it_position(df.rows[i].cells[job_title_col])])
         IN  Return([container EXCEPT !.processed_data = kept,
                                      !.raw_data = kept])

ITDeveloperFilter_execute(container) ==
    LET df == container.processed_data IN
    IF df = None THEN Raise("TypeError", container)
    ELSE IF job_title_col \notin Columns(df) THEN Raise("KeyError", container)
    ELSE Return([container EXCEPT !.processed_data =
             SelectRows(df, [i \in 1..Len(df.rows) |->
                                _is_it_position(df.rows[i].cells[job_title_col])])])

----------------------------------------------------------------------------
(* transformations/feature_extractors.py: the execute methods               *)

\* df[new] = df[col].apply(f), values being the results of f in row order
Derive(df, new, col, values) ==
    SetColumn(df, new, values, InferDtype(values, df.dtype[col]))

PersonalInfoExtractor_execute(container) ==
    LET df == container.processed_data IN
    IF df = None THEN Raise("AttributeError", container)
    ELSE IF COL_personal \notin Columns(df) THEN Raise("KeyError", container)
    ELSE IF \E i \in 1..Len(df.rows) : BirthMonthRaises(df.rows[i].cells[COL_personal])
         THEN Raise("IndexError", container)
    ELSE LET cell(i) == df.rows[i].cells[COL_personal]
             df1 == Derive(df, COL_gender, COL_personal,
                        [i \in 1..Len(df.rows) |-> Num(_parse_gender(cell(i)))])
             df2 == Derive(df1, COL_age, COL_personal,
                        [i \in 1..Len(df.rows) |-> Num(_parse_age(cell(i)))])
             df3 == Derive(df2, COL_birth_month, COL_personal,
                        [i \in 1..Len(df.rows) |-> Num(_parse_birth_month(cell(i)))])
         IN  Return([container EXCEPT !.processed_data =
                        DropColumns(df3, {COL_personal})])

SalaryExtractor_execute(container) ==
    LET df == container.processed_data IN
    IF df = None THEN Raise("AttributeError", container)
    ELSE IF COL_salary \notin Columns(df) THEN Raise("KeyError", container)
    ELSE LET df1 == Derive(df, COL_salary_rub, COL_salary,
                        [i \in 1..Len(df.rows) |->
                            Float(_normalize_salary(df.rows[i].cells[COL_salary]))])
         IN  Return([container EXCEPT !.processed_data =
                        DropColumns(df1, {COL_salary})])

\* ExperienceExtractorStage.execute dropping the rows without a text cell
ExperienceExtractor_execute_dropna(container) ==
    LET df == container.processed_data IN
    IF df = None THEN Raise("AttributeError", container)
    ELSE IF exp_col \notin Columns(df) THEN Raise("KeyError", container)
    ELSE Return([container EXCEPT !.processed_data =
             LET kept == SelectRows(df, [i \in 1..Len(df.rows) |->
                                            IsStr(df.rows[i].cells[exp_col])])
             IN  DropColumns(
                     Derive(kept, COL_experience_months, exp_col,
                         [i \in 1..Len(kept.rows) |->
                             Num(_extract_months(kept.rows[i].cells[exp_col]))]),
                     {exp_col})])

ExperienceExtractor_execute(container) ==
    LET df == container.processed_data IN
    IF df = None THEN Raise("AttributeError", container)
    ELSE IF exp_col \notin Columns(df) THEN Raise("KeyError", container)
    ELSE Return([container EXCEPT !.processed_data =
             DropColumns(
                 Derive(df, COL_experience_months, exp_col,
                     [i \in 1..Len(df.rows) |->
                         Num(_extract_months(df.rows[i].cells[exp_col]))]),
                 {exp_col})])

LocationExtractor_execute(container) ==
    LET df == container.processed_data IN
    IF df = None THEN Raise("AttributeError", container)
    ELSE IF COL_city \notin Columns(df) THEN Raise("KeyError", container)
    ELSE LET df1 == Derive(df, COL_region, COL_city,
                        [i \in 1..Len(df.rows) |->
                            Str(_categorize_city(df.rows[i].cells[COL_city]))])
         IN  Return([container EXCEPT !.processed_data =
                        DropColumns(df1, {COL_city})])

\* the loop  for type, keywords in TYPES.items(): df[prefix + type] = flag
RECURSIVE KeywordColumns(_, _, _, _)
KeywordColumns(df, col, prefix, types) ==
    IF types = <<>> THEN df
    ELSE KeywordColumns(
             Derive(df, prefix \o Head(types).type, col,
                 [i \in 1..Len(df.rows) |->
                     Num(KeywordFlag(df.rows[i].cells[col], Head(types).keywords))]),
             col, prefix, Tail(types))

\* the common body of the Employment, Schedule and Education execute methods
KeywordExtractor_execute(container, col, prefix, types) ==
    LET df == container.processed_data IN
    IF df = None THEN Raise("AttributeError", container)
    ELSE IF col \notin Columns(df) THEN Raise("KeyError", container)
    ELSE Return([container EXCEPT !.processed_data =
             DropColumns(KeywordColumns(df, col, prefix, types), {col})])

EmploymentExtractor_execute(container) ==
    KeywordExtractor_execute(container, emp_col, PREFIX_employment, EMPLOYMENT_TYPES)

ScheduleExtractor_execute(container) ==
    KeywordExtractor_execute(container, schedule_col, PREFIX_schedule, SCHEDULE_TYPES)

EducationExtractor_execute(container) ==
    KeywordExtractor_execute(container, edu_col, PREFIX_education, EDUCATION_LEVELS)

\* MiscExtractorStage.execute without the two final drops of the last-job
\* columns
MiscExtractor_execute_keep_last_job(container) ==
    LET df == container.processed_data IN
    IF df = None THEN Raise("AttributeError", container)
    ELSE LET df1 == IF COL_resume_date \in Columns(df)
                    THEN DropColumns(
                             Derive(df, COL_resume_old, COL_resume_date,
                                 [i \in 1..Len(df.rows) |->
                                     Num(_is_old_resume(df.rows[i].cells[COL_resume_date]))]),
                             {COL_resume_date})
                    ELSE df
             df2 == IF COL_car \in Columns(df1)
                    THEN DropColumns(
                             Derive(df1, COL_has_car, COL_car,
                                 [i \in 1..Len(df1.rows) |->
                                     Num(CarFlag(df1.rows[i].cells[COL_car]))]),
                             {COL_car})
                    ELSE df1
         IN  Return([container EXCEPT !.processed_data = df2])

MiscExtractor_execute(container) ==
    LET df == container.processed_data IN
    IF df = None THEN Raise("AttributeError", container)
    ELSE LET df1 == IF COL_resume_date \in Columns(df)
                    THEN DropColumns(
                             Derive(df, COL_resume_old, COL_resume_date,
                                 [i \in 1..Len(df.rows) |->
                                     Num(_is_old_resume(df.rows[i].cells[COL_resume_date]))]),
                             {COL_resume_date})
                    ELSE df
             df2 == IF COL_car \in Columns(df1)
                    THEN DropColumns(
                             Derive(df1, COL_has_car, COL_car,
                                 [i \in 1..Len(df1.rows) |->
                                     Num(CarFlag(df1.rows[i].cells[COL_car]))]),
                             {COL_car})
                    ELSE df1
             df3 == DropColumns(df2, {COL_last_place} \cap Columns(df2))
             df4 == DropColumns(df3, {COL_last_job} \cap Columns(df3))
         IN  Return([container EXCEPT !.processed_data = df4])

----------------------------------------------------------------------------
(* transformations/labeling.py: DeveloperLevelLabelerStage.execute          *)

\* one cell of df[job_title_col].fillna('').astype(str)
TitleText(v) == IF v.t = "nan" THEN Str(<<>>) ELSE Str(str(v))

\* columns_to_remove without the experience column
columns_to_remove_keep_experience(df) ==
    {COL_tmp_job_title} \cup ({job_title_col} \cap Columns(df))

\* the columns the labeler removes
columns_to_remove(df) ==
    {COL_tmp_job_title}
        \cup ({job_title_col} \cap Columns(df))
        \cup ({COL_experience_months} \cap Columns(df))

\* Labeled writing the level names in lower case
Labeled_lowercase(df) ==
    LET titles == [i \in 1..Len(df.rows) |->
                      IF job_title_col \in Columns(df)
                      THEN TitleText(df.rows[i].cells[job_title_col])
                      ELSE Str(<<>>)]
        df1 == SetColumn(df, COL_tmp_job_title, titles, "object")
        levels == [i \in 1..Len(df1.rows) |->
                      Str(lower(_determine_level(df1.rows[i].cells)))]
    IN  SetColumn(df1, COL_developer_level, levels, InferDtype(levels, "float64"))

\* df with the temporary '_job_title' column and the 'developer_level' column
Labeled(df) ==
    LET titles == [i \in 1..Len(df.rows) |->
                      IF job_title_col \in Columns(df)
                      THEN TitleText(df.rows[i].cells[job_title_col])
                      ELSE Str(<<>>)]
        df1 == SetColumn(df, COL_tmp_job_title, titles, "object")
        levels == [i \in 1..Len(df1.rows) |-> Str(_determine_level(df1.rows[i].cells))]
    IN  SetColumn(df1, COL_developer_level, levels, InferDtype(levels, "float64"))

\* what df.apply(f, axis=1) yields for a table without rows depends on the
\* pandas release: an empty Series, which the assignment stores as an empty
\* column, or a copy of the frame, which the assignment rejects
EmptyApplyResults == {"series", "frame"}

DeveloperLevelLabeler_execute(container, empty_apply) ==
    LET df == container.processed_data IN
    IF df = None THEN Raise("AttributeError", container)
    ELSE IF RowCount(df) = 0 /\ empty_apply = "frame"
         THEN Raise("ValueError", container)
    ELSE LET out == DropColumns(Labeled(df), columns_to_remove(df)) IN
        Return([container EXCEPT !.target_vector = Array(Values(out, COL_developer_level)),
                                 !.processed_data = out])

----------------------------------------------------------------------------
(* transformations/preprocessing.py: CategoricalEncoderStage.execute        *)

\* Python's order on str: lexicographic on code points
RECURSIVE LexLess(_, _)
LexLess(a, b) ==
    IF b = <<>> THEN FALSE
    ELSE IF a = <<>> THEN TRUE
    ELSE IF Head(a) # Head(b) THEN Head(a) < Head(b)
    ELSE LexLess(Tail(a), Tail(b))

\* the texts of a set in ascending order
RECURSIVE Sorted(_)
Sorted(S) ==
    IF S = {} THEN <<>>
    ELSE LET m == CHOOSE x \in S : \A y \in S \ {x} : LexLess(x, y)
         IN  <<m>> \o Sorted(S \ {m})

\* the categories get_dummies finds in a column: its distinct texts, sorted
Levels(df, col) ==
    Sorted({df.rows[i].cells[col].s :
               i \in {j \in 1..Len(df.rows) : df.rows[j].cells[col].t = "str"}})

\* the indicator columns of one source column with drop_first=False
DummiesOf_keep_first(df, col) ==
    LET levels == Levels(df, col) IN
        [k \in 1..Len(levels) |->
            [name |-> col \o <<95>> \o levels[k], source |-> col,
             level |-> levels[k]]]

\* the indicator columns of one source column; drop_first=True drops level 1
DummiesOf(df, col) ==
    LET levels == Levels(df, col) IN
        [k \in 1..(IF Len(levels) = 0 THEN 0 ELSE Len(levels) - 1) |->
            [name |-> col \o <<95>> \o levels[k + 1], source |-> col,
             level |-> levels[k + 1]]]

\* the indicator columns of all encoded columns, in the order of the columns
RECURSIVE AllDummies(_, _)
AllDummies(df, columns) ==
    IF columns = <<>> THEN <<>>
    ELSE DummiesOf(df, Head(columns)) \o AllDummies(df, Tail(columns))

\* appends the indicator columns to the table out, computed from df
RECURSIVE AddDummies(_, _, _)
AddDummies(out, df, dummies) ==
    IF dummies = <<>> THEN out
    ELSE LET d == Head(dummies)
             flags == [i \in 1..Len(df.rows) |->
                          Num(IF df.rows[i].cells[d.source] = Str(d.level)
                              THEN 1 ELSE 0)]
         IN  AddDummies(SetColumn(out, d.name, flags, "bool"), df, Tail(dummies))

\* get_dummies on df.reset_index(drop=True): the rows are renumbered
get_dummies_reset_index(df, columns) ==
    LET encoded == AddDummies(DropColumns(df, Range(columns)), df,
                              AllDummies(df, columns))
    IN  [encoded EXCEPT !.rows = [i \in 1..Len(encoded.rows) |->
                                      [encoded.rows[i] EXCEPT !.id = i]]]

\* pd.get_dummies(df, columns=columns, drop_first=True, prefix_sep='_')
get_dummies(df, columns) ==
    AddDummies(DropColumns(df, Range(columns)), df, AllDummies(df, columns))

\* the loop that puts back every column of cols that df_encoded lacks
RECURSIVE Preserve(_, _, _)
Preserve(df_encoded, df, cols) ==
    IF cols = <<>> THEN df_encoded
    ELSE Preserve(
             IF Head(cols) \notin Columns(df_encoded)
             THEN SetColumn(df_encoded, Head(cols), Values(df, Head(cols)),
                            df.dtype[Head(cols)])
             ELSE df_encoded,
             df, Tail(cols))

\* categorical_cols selecting by a dtype name no column has
categorical_cols_category(df) ==
    SelectSeq(df.cols, LAMBDA c : df.dtype[c] = "category" /\ c # COL_developer_level)

\* the object-dtype columns other than the target
categorical_cols(df) ==
    SelectSeq(df.cols, LAMBDA c : df.dtype[c] = "object" /\ c # COL_developer_level)

\* the other columns, target excluded
numeric_cols(df) ==
    SelectSeq(df.cols, LAMBDA c : df.dtype[c] # "object" /\ c # COL_developer_level)

\* CategoricalEncoderStage.execute also recording the names of the encoded
\* columns in feature_labels
CategoricalEncoder_execute_names_features(container) ==
    LET df == container.processed_data IN
    IF df = None THEN Raise("AttributeError", container)
    ELSE IF categorical_cols(df) = <<>> THEN Return(container)
    ELSE LET encoded == Preserve(get_dummies(df, categorical_cols(df)),
                                 df, numeric_cols(df))
             df_encoded == IF COL_developer_level \in Columns(df)
                           THEN SetColumn(encoded, COL_developer_level,
                                          Values(df, COL_developer_level),
                                          df.dtype[COL_developer_level])
                           ELSE encoded
         IN  Return([container EXCEPT !.processed_data = df_encoded,
                                      !.feature_labels = df_encoded.cols])

CategoricalEncoder_execute(container) ==
    LET df == container.processed_data IN
    IF df = None THEN Raise("AttributeError", container)
    ELSE IF categorical_cols(df) = <<>> THEN Return(container)
    ELSE LET encoded == Preserve(get_dummies(df, categorical_cols(df)),
                                 df, numeric_cols(df))
             df_encoded == IF COL_developer_level \in Columns(df)
                           THEN SetColumn(encoded, COL_developer_level,
                                          Values(df, COL_developer_level),
                                          df.dtype[COL_developer_level])
                           ELSE encoded
         IN  Return([container EXCEPT !.processed_data = df_encoded])

----------------------------------------------------------------------------
(* transformations/preprocessing.py: FeatureTargetSplitterStage.execute     *)

\* feature_df.values: one sequence of cell values per row, in column order
Matrix(df) ==
    [i \in 1..Len(df.rows) |-> [k \in 1..Len(df.cols) |-> df.rows[i].cells[df.cols[k]]]]

\* FeatureTargetSplitterStage.execute taking the feature names from df
\* instead of feature_df
FeatureTargetSplitter_execute_names_of_df(container) ==
    LET df == container.processed_data IN
    IF df = None THEN Raise("AttributeError", container)
    ELSE IF COL_developer_level \notin Columns(df)
         THEN [Return(container) EXCEPT !.log =
                  <<LogEntry("ERROR", "target not found", "FeatureTargetSplitter", "")>>]
    ELSE LET feature_df == DropColumns(df, {COL_developer_level}) IN
        Return([container EXCEPT !.target_vector = Array(Values(df, COL_developer_level)),
                                 !.feature_matrix = Array2D(Matrix(feature_df),
                                                            Len(feature_df.cols)),
                                 !.feature_labels = df.cols,
                                 !.processed_data = None])

FeatureTargetSplitter_execute(container) ==
    LET df == container.processed_data IN
    IF df = None THEN Raise("AttributeError", container)
    ELSE IF COL_developer_level \notin Columns(df)
         THEN [Return(container) EXCEPT !.log =
                  <<LogEntry("ERROR", "target not found", "FeatureTargetSplitter", "")>>]
    ELSE LET feature_df == DropColumns(df, {COL_developer_level}) IN
        Return([container EXCEPT !.target_vector = Array(Values(df, COL_developer_level)),
                                 !.feature_matrix = Array2D(Matrix(feature_df),
                                                            Len(feature_df.cols)),
                                 !.feature_labels = feature_df.cols,
                                 !.processed_data = None])

----------------------------------------------------------------------------
(* main.py and core.py: the pipeline and its runner                         *)

\* create_data_pipeline with the labeler registered before the experience
\* extractor
create_data_pipeline_labeler_first ==
    << "CSVLoader", "ITDeveloperFilter", "PersonalInfoExtractor",
       "SalaryExtractor", "DeveloperLevelLabeler", "ExperienceExtractor",
       "LocationExtractor", "EmploymentExtractor", "ScheduleExtractor",
       "EducationExtractor", "MiscExtractor", "CategoricalEncoder",
       "FeatureTargetSplitter" >>

\* the stages registered by create_data_pipeline, by DataStage.name
create_data_pipeline ==
    << "CSVLoader", "ITDeveloperFilter", "PersonalInfoExtractor",
       "SalaryExtractor", "ExperienceExtractor", "DeveloperLevelLabeler",
       "LocationExtractor", "EmploymentExtractor", "ScheduleExtractor",
       "EducationExtractor", "MiscExtractor", "CategoricalEncoder",
       "FeatureTargetSplitter" >>

\* the DataStage classes of the repository, by name
StageNames == Range(create_data_pipeline)

\* the stages that only derive columns from a raw column
ExtractorNames ==
    {"PersonalInfoExtractor", "SalaryExtractor", "ExperienceExtractor",
     "LocationExtractor", "EmploymentExtractor", "ScheduleExtractor",
     "EducationExtractor", "MiscExtractor"}

\* the column ITDeveloperFilterStage.execute looks up
FilterReads == {job_title_col}

\* the column DeveloperLevelLabelerStage.execute copies into '_job_title'
LabelerReads(df) == {job_title_col} \cap Columns(df)

\* the raw columns whose cells an extraction stage passes to apply
ExtractorReads(name, df) ==
    CASE name = "PersonalInfoExtractor" -> {COL_personal}
      [] name = "SalaryExtractor"       -> {COL_salary}
      [] name = "ExperienceExtractor"   -> {exp_col}
      [] name = "LocationExtractor"     -> {COL_city}
      [] name = "EmploymentExtractor"   -> {emp_col}
      [] name = "ScheduleExtractor"     -> {schedule_col}
      [] name = "EducationExtractor"    -> {edu_col}
      [] name = "MiscExtractor"         -> {COL_resume_date, COL_car} \cap Columns(df)
      [] OTHER                          -> {}

\* the columns whose cells CategoricalEncoderStage.execute encodes
EncoderReads(df) == Range(categorical_cols(df))

\* the columns of the table df whose cells the stage called name reads
ReadColumns(name, df) ==
    CASE name = "ITDeveloperFilter"     -> FilterReads
      [] name = "DeveloperLevelLabeler" -> LabelerReads(df)
      [] name = "CategoricalEncoder"    -> EncoderReads(df)
      [] name = "FeatureTargetSplitter" -> Columns(df)
      [] name \in ExtractorNames        -> ExtractorReads(name, df)
      [] OTHER                          -> {}

\* the raw columns the execute of the stage called name refers to by name
NamedColumns(name) ==
    CASE name = "ITDeveloperFilter"     -> {job_title_col}
      [] name = "DeveloperLevelLabeler" -> {job_title_col}
      [] name = "PersonalInfoExtractor" -> {COL_personal}
      [] name = "SalaryExtractor"       -> {COL_salary}
      [] name = "ExperienceExtractor"   -> {exp_col}
      [] name = "LocationExtractor"     -> {COL_city}
      [] name = "EmploymentExtractor"   -> {emp_col}
      [] name = "ScheduleExtractor"     -> {schedule_col}
      [] name = "EducationExtractor"    -> {edu_col}
      [] name = "MiscExtractor"         ->
             {COL_resume_date, COL_car, COL_last_place, COL_last_job}
      [] OTHER                          -> {}

\* add_stage inserting at the front instead of appending
add_stage_prepend(pipeline_stages, stage) == <<stage>> \o pipeline_stages

\* ProcessingPipeline.add_stage: self.stages.append(stage)
add_stage(pipeline_stages, stage) == Append(pipeline_stages, stage)

\* DataStage.__call__ without the raise of its except clause: the error is
\* logged and the container is returned
DataStage_call_swallow(name, out) ==
    [raised    |-> FALSE,
     exc       |-> "",
     container |-> out.container,
     log       |-> <<LogEntry("INFO", "executing", name, "")>>
                   \o out.log
                   \o <<IF out.raised
                        THEN LogEntry("ERROR", "failed", name, out.exc)
                        ELSE LogEntry("INFO", "completed", name, "")>>]

\* DataStage.__call__: logs, runs execute, logs the outcome and re-raises
DataStage_call(name, out) ==
    [raised    |-> out.raised,
     exc       |-> out.exc,
     container |-> out.container,
     log       |-> <<LogEntry("INFO", "executing", name, "")>>
                   \o out.log
                   \o <<IF out.raised
                        THEN LogEntry("ERROR", "failed", name, out.exc)
                        ELSE LogEntry("INFO", "completed", name, "")>>]

----------------------------------------------------------------------------
(* The inputs: what pd.read_csv can yield for hh.csv.                       *)

\* most rows of a loaded table in a run of the registered pipeline
MaxRows == 2

\* most rows of a loaded table in a run of an arbitrary pipeline
MaxRunnerRows == 1

\* the number of sample resumes the tables of such a run are made of
MaxRunnerSamples == 4

\* most rows of a loaded table in a run that is repeated
MaxRerunRows == 1

\* most stages of an arbitrary pipeline
MaxStages == 2

\* longest experience, in months, the labeling function is applied to
MaxExperienceMonths == 120

\* the columns of the hh.csv schema, in file order
RAW_COLUMNS ==
    << COL_personal,
       COL_salary,
       job_title_col,
       COL_city,
       emp_col,
       schedule_col,
       exp_col,
       COL_last_place,
       COL_last_job,
       edu_col,
       COL_resume_date,
       COL_car >>

\* a well-formed resume of a junior developer
SampleRow1 ==
    << Str(<<1052, 1091, 1078, 1095, 1080, 1085, 1072, 32, 44, 32, 51, 48, 32, 1083, 1077, 1090, 32, 44, 32, 1088, 1086, 1076, 1080, 1083, 1089, 1103, 32, 53, 32, 1084, 1072, 1103, 32, 49, 57, 56, 57>>)   \* 'Мужчина , 30 лет , родился 5 мая 1989'
     , Str(<<49, 48, 48, 48, 32, 1088, 1091, 1073, 46>>)   \* '1000 руб.'
     , Str(<<74, 117, 110, 105, 111, 114, 32, 80, 121, 116, 104, 111, 110, 32, 68, 101, 118, 101, 108, 111, 112, 101, 114>>)   \* 'Junior Python Developer'
     , Str(<<1052, 1086, 1089, 1082, 1074, 1072, 32, 44, 32, 1085, 1077, 32, 1075, 1086, 1090, 1086, 1074, 32, 1082, 32, 1087, 1077, 1088, 1077, 1077, 1079, 1076, 1091>>)   \* 'Москва , не готов к переезду'
     , Str(<<1087, 1086, 1083, 1085, 1072, 1103, 32, 1079, 1072, 1085, 1103, 1090, 1086, 1089, 1090, 1100>>)   \* 'полная занятость'
     , Str(<<1087, 1086, 1083, 1085, 1099, 1081, 32, 1076, 1077, 1085, 1100>>)   \* 'полный день'
     , Str(<<1054, 1087, 1099, 1090, 32, 1088, 1072, 1073, 1086, 1090, 1099, 32, 51, 32, 1075, 1086, 1076, 1072, 32, 52, 32, 1084, 1077, 1089, 1103, 1094, 1072>>)   \* 'Опыт работы 3 года 4 месяца'
     , Str(<<1054, 1054, 1054, 32, 1056, 1086, 1084, 1072, 1096, 1082, 1072>>)   \* 'ООО Ромашка'
     , Str(<<1055, 1088, 1086, 1075, 1088, 1072, 1084, 1084, 1080, 1089, 1090>>)   \* 'Программист'
     , Str(<<1042, 1099, 1089, 1096, 1077, 1077, 32, 1086, 1073, 1088, 1072, 1079, 1086, 1074, 1072, 1085, 1080, 1077, 32, 50, 48, 49, 50>>)   \* 'Высшее образование 2012'
     , Str(<<49, 54, 46, 48, 52, 46, 50, 48, 49, 57, 32, 49, 53, 58, 53, 57>>)   \* '16.04.2019 15:59'
     , Str(<<1048, 1084, 1077, 1077, 1090, 1089, 1103, 32, 1089, 1086, 1073, 1089, 1090, 1074, 1077, 1085, 1085, 1099, 1081, 32, 1072, 1074, 1090, 1086, 1084, 1086, 1073, 1080, 1083, 1100>>)   \* 'Имеется собственный автомобиль'
    >>

\* a senior developer: female, salary in USD, unknown city, old resume, empty cells
SampleRow2 ==
    << Str(<<1046, 1077, 1085, 1097, 1080, 1085, 1072, 32, 44, 32, 52, 49, 32, 1075, 1086, 1076, 32, 44, 32, 1088, 1086, 1076, 1080, 1083, 1072, 1089, 1100, 32, 50, 32, 1103, 1085, 1074, 1072, 1088, 1103, 32, 49, 57, 55, 56>>)   \* 'Женщина , 41 год , родилась 2 января 1978'
     , Str(<<50, 32, 48, 48, 48, 32, 85, 83, 68>>)   \* '2 000 USD'
     , Str(<<83, 101, 110, 105, 111, 114, 32, 74, 97, 118, 97, 32, 1088, 1072, 1079, 1088, 1072, 1073, 1086, 1090, 1095, 1080, 1082>>)   \* 'Senior Java разработчик'
     , Str(<<65, 116, 108, 97, 110, 116, 105, 115>>)   \* 'Atlantis'
     , Str(<<1095, 1072, 1089, 1090, 1080, 1095, 1085, 1072, 1103, 32, 1079, 1072, 1085, 1103, 1090, 1086, 1089, 1090, 1100, 44, 32, 1087, 1086, 1083, 1085, 1072, 1103, 32, 1079, 1072, 1085, 1103, 1090, 1086, 1089, 1090, 1100>>)   \* 'частичная занятость, полная занятость'
     , Str(<<1091, 1076, 1072, 1083, 1077, 1085, 1085, 1072, 1103, 32, 1088, 1072, 1073, 1086, 1090, 1072>>)   \* 'удаленная работа'
     , Str(<<1054, 1087, 1099, 1090, 32, 1088, 1072, 1073, 1086, 1090, 1099, 32, 49, 48, 32, 1083, 1077, 1090>>)   \* 'Опыт работы 10 лет'
     , NaN
     , NaN
     , Str(<<1057, 1088, 1077, 1076, 1085, 1077, 1077, 32, 1089, 1087, 1077, 1094, 1080, 1072, 1083, 1100, 1085, 1086, 1077, 32, 1086, 1073, 1088, 1072, 1079, 1086, 1074, 1072, 1085, 1080, 1077>>)   \* 'Среднее специальное образование'
     , Str(<<48, 49, 46, 48, 50, 46, 50, 48, 49, 56, 32, 49, 48, 58, 48, 48>>)   \* '01.02.2018 10:00'
     , Str(<<1053, 1077, 32, 1091, 1082, 1072, 1079, 1072, 1085, 1086>>)   \* 'Не указано'
    >>

\* a title with a Junior and a Senior indicator; unparseable salary and date
SampleRow3 ==
    << Str(<<77, 97, 108, 101, 32, 44, 32, 50, 53>>)   \* 'Male , 25'
     , Str(<<1076, 1086, 1075, 1086, 1074, 1086, 1088, 1085, 1072, 1103>>)   \* 'договорная'
     , Str(<<74, 117, 110, 105, 111, 114, 32, 68, 101, 118, 79, 112, 115, 32, 84, 101, 97, 109, 32, 76, 101, 97, 100>>)   \* 'Junior DevOps Team Lead'
     , Str(<<77, 105, 110, 115, 107>>)   \* 'Minsk'
     , NaN
     , NaN
     , Str(<<49, 48, 32, 1084, 1077, 1089, 1103, 1094, 1077, 1074>>)   \* '10 месяцев'
     , Str(<<73, 84, 32, 76, 116, 100>>)   \* 'IT Ltd'
     , Str(<<105, 110, 116, 101, 114, 110>>)   \* 'intern'
     , NaN
     , Str(<<1074, 1095, 1077, 1088, 1072>>)   \* 'вчера'
     , NaN
    >>

\* a title with a Middle indicator and 97 months of experience
SampleRow4 ==
    << Str(<<70, 101, 109, 97, 108, 101, 32, 44, 32, 51, 51, 32, 44, 32, 98, 111, 114, 110, 32, 111, 110, 32, 55, 32, 77, 97, 121, 32, 49, 57, 56, 54>>)   \* 'Female , 33 , born on 7 May 1986'
     , Str(<<57, 48, 48, 32, 69, 85, 82>>)   \* '900 EUR'
     , Str(<<77, 105, 100, 100, 108, 101, 32, 81, 65>>)   \* 'Middle QA'
     , Str(<<1050, 1072, 1079, 1072, 1085, 1100>>)   \* 'Казань'
     , Str(<<102, 117, 108, 108, 32, 116, 105, 109, 101>>)   \* 'full time'
     , Str(<<102, 108, 101, 120, 105, 98, 108, 101, 32, 115, 99, 104, 101, 100, 117, 108, 101>>)   \* 'flexible schedule'
     , Str(<<1054, 1087, 1099, 1090, 32, 1088, 1072, 1073, 1086, 1090, 1099, 32, 56, 32, 1083, 1077, 1090, 32, 49, 32, 1084, 1077, 1089, 1103, 1094>>)   \* 'Опыт работы 8 лет 1 месяц'
     , Str(<<66, 97, 110, 107>>)   \* 'Bank'
     , Str(<<81, 65>>)   \* 'QA'
     , Str(<<72, 105, 103, 104, 101, 114, 32, 101, 100, 117, 99, 97, 116, 105, 111, 110>>)   \* 'Higher education'
     , Str(<<48, 51, 46, 48, 51, 46, 50, 48, 50, 48, 32, 48, 57, 58, 48, 48>>)   \* '03.03.2020 09:00'
     , Str(<<1048, 1084, 1077, 1077, 1090, 1089, 1103, 32, 1089, 1086, 1073, 1089, 1090, 1074, 1077, 1085, 1085, 1099, 1081, 32, 1072, 1074, 1090, 1086, 1084, 1086, 1073, 1080, 1083, 1100>>)   \* 'Имеется собственный автомобиль'
    >>

\* a resume whose title is not an IT position: an ambiguous keyword with no
\* IT context
SampleRow5 ==
    << Str(<<1052, 1091, 1078, 1095, 1080, 1085, 1072, 32, 44, 32, 53, 50, 32, 1075, 1086, 1076, 1072, 32, 44, 32, 1088, 1086, 1076, 1080, 1083, 1089, 1103, 32, 57, 32, 1084, 1072, 1088, 1090, 1072, 32, 49, 57, 54, 55>>)   \* 'Мужчина , 52 года , родился 9 марта 1967'
     , Str(<<51, 48, 32, 48, 48, 48, 32, 1088, 1091, 1073, 46>>)   \* '30 000 руб.'
     , Str(<<1043, 1083, 1072, 1074, 1085, 1099, 1081, 32, 1080, 1085, 1078, 1077, 1085, 1077, 1088>>)   \* 'Главный инженер'
     , Str(<<1058, 1091, 1083, 1072>>)   \* 'Тула'
     , Str(<<1087, 1086, 1083, 1085, 1072, 1103, 32, 1079, 1072, 1085, 1103, 1090, 1086, 1089, 1090, 1100>>)   \* 'полная занятость'
     , Str(<<1087, 1086, 1083, 1085, 1099, 1081, 32, 1076, 1077, 1085, 1100>>)   \* 'полный день'
     , Str(<<1054, 1087, 1099, 1090, 32, 1088, 1072, 1073, 1086, 1090, 1099, 32, 50, 53, 32, 1083, 1077, 1090>>)   \* 'Опыт работы 25 лет'
     , Str(<<1047, 1072, 1074, 1086, 1076>>)   \* 'Завод'
     , Str(<<1041, 1091, 1093, 1075, 1072, 1083, 1090, 1077, 1088>>)   \* 'Бухгалтер'
     , Str(<<1042, 1099, 1089, 1096, 1077, 1077, 32, 1086, 1073, 1088, 1072, 1079, 1086, 1074, 1072, 1085, 1080, 1077>>)   \* 'Высшее образование'
     , Str(<<48, 53, 46, 48, 53, 46, 50, 48, 49, 55, 32, 49, 50, 58, 48, 48>>)   \* '05.05.2017 12:00'
     , Str(<<1053, 1077, 32, 1091, 1082, 1072, 1079, 1072, 1085, 1086>>)   \* 'Не указано'
    >>

\* a resume with every cell empty
SampleRow6 ==
    << NaN
     , NaN
     , NaN
     , NaN
     , NaN
     , NaN
     , NaN
     , NaN
     , NaN
     , NaN
     , NaN
     , NaN
    >>

\* an IT title (an ambiguous keyword with an IT context) with every other
\* cell empty
SampleRow7 ==
    << NaN
     , NaN
     , Str(<<1048, 1085, 1078, 1077, 1085, 1077, 1088, 32, 1040, 1057, 1059>>)   \* 'Инженер АСУ'
     , NaN
     , NaN
     , NaN
     , NaN
     , NaN
     , NaN
     , NaN
     , NaN
     , NaN
    >>

\* a personal-info cell whose third part is a single word
SampleRow8 ==
    << Str(<<77, 97, 108, 101, 44, 32, 51, 48, 44, 32, 120>>)   \* 'Male, 30, x'
     , Str(<<53, 48, 48, 32, 115, 111, 109>>)   \* '500 som'
     , Str(<<68, 101, 118, 101, 108, 111, 112, 101, 114>>)   \* 'Developer'
     , Str(<<77, 111, 115, 99, 111, 119>>)   \* 'Moscow'
     , Str(<<112, 114, 111, 106, 101, 99, 116, 32, 119, 111, 114, 107>>)   \* 'project work'
     , Str(<<114, 101, 109, 111, 116, 101, 32, 119, 111, 114, 107, 105, 110, 103>>)   \* 'remote working'
     , Str(<<50, 32, 1075, 1086, 1076, 1072>>)   \* '2 года'
     , Str(<<83, 116, 97, 114, 116, 117, 112>>)   \* 'Startup'
     , Str(<<68, 101, 118, 101, 108, 111, 112, 101, 114>>)   \* 'Developer'
     , Str(<<105, 110, 99, 111, 109, 112, 108, 101, 116, 101, 32, 104, 105, 103, 104, 101, 114>>)   \* 'incomplete higher'
     , Str(<<49, 49, 46, 49, 49, 46, 50, 48, 49, 57, 32, 49, 49, 58, 49, 49>>)   \* '11.11.2019 11:11'
     , Str(<<1053, 1077, 32, 1091, 1082, 1072, 1079, 1072, 1085, 1086>>)   \* 'Не указано'
    >>

\* the resumes a loaded table is made of
SampleRows ==
    << SampleRow1, SampleRow2, SampleRow3, SampleRow4, SampleRow5, SampleRow6, SampleRow7, SampleRow8 >>
\* the job titles the labeling function is applied to
SampleTitles ==
    << <<68, 101, 118, 101, 108, 111, 112, 101, 114>>   \* 'Developer'
     , <<74, 117, 110, 105, 111, 114, 32, 68, 101, 118, 101, 108, 111, 112, 101, 114>>   \* 'Junior Developer'
     , <<83, 69, 78, 73, 79, 82, 32, 100, 101, 118>>   \* 'SENIOR dev'
     , <<77, 105, 100, 100, 108, 101, 32, 81, 65>>   \* 'Middle QA'
     , <<74, 117, 110, 105, 111, 114, 32, 84, 101, 97, 109, 32, 76, 101, 97, 100>>   \* 'Junior Team Lead'
     , <<83, 101, 110, 105, 111, 114, 32, 109, 105, 100, 100, 108, 101>>   \* 'Senior middle'
     , <<73, 110, 116, 101, 114, 110, 32, 109, 105, 100, 32, 100, 101, 118>>   \* 'Intern mid dev'
     , <<106, 114, 32, 115, 114, 32, 109, 105, 100, 32, 120>>   \* 'jr sr mid x'
     , <<1042, 1077, 1076, 1091, 1097, 1080, 1081, 32, 1088, 1072, 1079, 1088, 1072, 1073, 1086, 1090, 1095, 1080, 1082>>   \* 'Ведущий разработчик'
     , <<1052, 1083, 1072, 1076, 1096, 1080, 1081, 32, 1087, 1088, 1086, 1075, 1088, 1072, 1084, 1084, 1080, 1089, 1090>>   \* 'Младший программист'
     , <<1052, 1080, 1076, 1083>>   \* 'Мидл'
     , <<>>   \* ''
     , <<1057, 1090, 1072, 1078, 1105, 1088, 44, 32, 1075, 1083, 1072, 1074, 1085, 1099, 1081, 32, 1072, 1088, 1093, 1080, 1090, 1077, 1082, 1090, 1086, 1088>>   \* 'Стажёр, главный архитектор'
     , <<105, 110, 116, 101, 114, 110, 97, 116, 105, 111, 110, 97, 108, 32, 115, 97, 108, 101, 115>>   \* 'international sales'
    >>

\* position of a column in RAW_COLUMNS
RawIndex(col) == CHOOSE k \in 1..Len(RAW_COLUMNS) : RAW_COLUMNS[k] = col

\* the table read from a file that holds the sample rows picks[1], picks[2],
\* ... and lacks the columns in missing; the index labels are 1, 2, ...
LoadedTable(picks, missing) ==
    LET present == SelectSeq(RAW_COLUMNS, LAMBDA c : c \notin missing)
        cell(i, c) == SampleRows[picks[i]][RawIndex(c)]
    IN  [cols  |-> present,
         dtype |-> [c \in Range(present) |->
                       InferDtype([i \in 1..Len(picks) |-> cell(i, c)], "object")],
         rows  |-> [i \in 1..Len(picks) |->
                       [id |-> i, cells |-> [c \in Range(present) |-> cell(i, c)]]]]

\* the schemas a file can have, each given by the columns it lacks: the full
\* schema only
FullSchema == {{}}

\* the full schema, or the schema without one of its columns
Schemas == FullSchema \cup {{c} : c \in Range(RAW_COLUMNS)}

\* the files with at least one and at most n rows and one of the schemas
Tables(n, schemas) ==
    {LoadedTable(picks, missing) :
        picks \in UNION {[1..k -> 1..Len(SampleRows)] : k \in 1..n},
        missing \in schemas}

\* the outcomes of pd.read_csv: an error, or one of the tables
CsvOutcomes(n, schemas) ==
    {[failed |-> TRUE, table |-> None]}
        \cup {[failed |-> FALSE, table |-> t] : t \in Tables(n, schemas)}

\* the rows the labeling function is applied to: a title with an experience,
\* or a title alone
LevelRows ==
    {[c \in {COL_tmp_job_title, COL_experience_months} |->
         IF c = COL_tmp_job_title THEN Str(SampleTitles[t]) ELSE Num(e)] :
        t \in 1..Len(SampleTitles), e \in 0..MaxExperienceMonths}
    \cup {[c \in {COL_tmp_job_title} |-> Str(SampleTitles[t])] :
             t \in 1..Len(SampleTitles)}

----------------------------------------------------------------------------
(* main.py: main() builds the registered pipeline and a fresh container.    *)

Init ==
    /\ stages = create_data_pipeline
    /\ registered = create_data_pipeline
    /\ pc = "idle"
    /\ idx = 0
    /\ current = DataContainer
    /\ stage_input = None
    /\ result = None
    /\ error = ""
    /\ log = <<>>
    /\ fn_arg = None
    /\ fn_ret = None

\* ProcessingPipeline.run, up to the loop
RunStart ==
    /\ pc = "idle"
    /\ pc' = "running"
    /\ idx' = 0
    /\ log' = Append(log, LogEntry("INFO", "starting pipeline", "", ""))
    /\ UNCHANGED <<stages, registered, current, stage_input, result, error,
                   fn_arg, fn_ret>>

\* one iteration of the loop of run: current = stage(current) for the stage
\* called name, whose execute has the outcome out
StageCall(name, out) ==
    /\ pc = "running"
    /\ idx < Len(stages)
    /\ stages[idx + 1] = name
    /\ stage_input' = current
    /\ LET call == DataStage_call(name, out) IN
        /\ log' = log \o <<LogEntry("INFO", "processing stage", name, "")>> \o call.log
        /\ current' = call.container
        /\ IF call.raised
           THEN pc' = "failed" /\ error' = call.exc /\ idx' = idx
           ELSE pc' = "running" /\ error' = error /\ idx' = idx + 1
    /\ UNCHANGED <<stages, registered, result, fn_arg, fn_ret>>

\* the file is read only when the loader is the stage run calls next
CSVLoaderStage(outcomes) ==
    /\ pc = "running" /\ idx < Len(stages) /\ stages[idx + 1] = "CSVLoader"
    /\ \E csv \in outcomes : StageCall("CSVLoader", CSVLoader_execute(current, csv))

ITDeveloperFilterStage ==
    StageCall("ITDeveloperFilter", ITDeveloperFilter_execute(current))

PersonalInfoExtractorStage ==
    StageCall("PersonalInfoExtractor", PersonalInfoExtractor_execute(current))

SalaryExtractorStage ==
    StageCall("SalaryExtractor", SalaryExtractor_execute(current))

ExperienceExtractorStage ==
    StageCall("ExperienceExtractor", ExperienceExtractor_execute(current))

\* choices: what the installed pandas can do with a table without rows
DeveloperLevelLabelerStage(choices) ==
    \E empty_apply \in choices :
        StageCall("DeveloperLevelLabeler",
                  DeveloperLevelLabeler_execute(current, empty_apply))

LocationExtractorStage ==
    StageCall("LocationExtractor", LocationExtractor_execute(current))

EmploymentExtractorStage ==
    StageCall("EmploymentExtractor", EmploymentExtractor_execute(current))

ScheduleExtractorStage ==
    StageCall("ScheduleExtractor", ScheduleExtractor_execute(current))

EducationExtractorStage ==
    StageCall("EducationExtractor", EducationExtractor_execute(current))

MiscExtractorStage ==
    StageCall("MiscExtractor", MiscExtractor_execute(current))

CategoricalEncoderStage ==
    StageCall("CategoricalEncoder", CategoricalEncoder_execute(current))

FeatureTargetSplitterStage ==
    StageCall("FeatureTargetSplitter", FeatureTargetSplitter_execute(current))

\* ProcessingPipeline.run, after the loop: return current
RunReturn ==
    /\ pc = "running"
    /\ idx = Len(stages)
    /\ pc' = "done"
    /\ result' = current
    /\ log' = Append(log, LogEntry("INFO", "pipeline completed", "", ""))
    /\ UNCHANGED <<stages, registered, idx, current, stage_input, error,
                   fn_arg, fn_ret>>

Next ==
    \/ RunStart
    \/ CSVLoaderStage(CsvOutcomes(MaxRows, Schemas))
    \/ ITDeveloperFilterStage
    \/ PersonalInfoExtractorStage
    \/ SalaryExtractorStage
    \/ ExperienceExtractorStage
    \/ DeveloperLevelLabelerStage(EmptyApplyResults)
    \/ LocationExtractorStage
    \/ EmploymentExtractorStage
    \/ ScheduleExtractorStage
    \/ EducationExtractorStage
    \/ MiscExtractorStage
    \/ CategoricalEncoderStage
    \/ FeatureTargetSplitterStage
    \/ RunReturn

\* a run of the pipeline main() registers
Spec == Init /\ [][Next]_vars

----------------------------------------------------------------------------
(* core.py: ProcessingPipeline with any stages, built by its constructor    *)
(* and add_stage.                                                           *)

\* ProcessingPipeline(stages): no list, or a list of one stage
InitRunner ==
    /\ stages \in {<<>>} \cup {<<s>> : s \in StageNames}
    /\ registered = stages
    /\ pc = "idle"
    /\ idx = 0
    /\ current = DataContainer
    /\ stage_input = None
    /\ result = None
    /\ error = ""
    /\ log = <<>>
    /\ fn_arg = None
    /\ fn_ret = None

\* pipeline.add_stage(stage), before the run
AddStage ==
    /\ pc = "idle"
    /\ Len(stages) < MaxStages
    /\ \E s \in StageNames :
        /\ stages' = add_stage(stages, s)
        /\ registered' = Append(registered, s)
    /\ UNCHANGED <<pc, idx, current, stage_input, result, error, log,
                   fn_arg, fn_ret>>

\* the outcomes of pd.read_csv for a pipeline of any stages: an error, or a
\* file of the full schema with at most MaxRunnerRows rows, each one of the
\* first MaxRunnerSamples resumes
RunnerOutcomes ==
    {[failed |-> TRUE, table |-> None]}
        \cup {[failed |-> FALSE, table |-> LoadedTable(picks, {})] :
                 picks \in UNION {[1..k -> 1..MaxRunnerSamples] : k \in 1..MaxRunnerRows}}

NextRunner ==
    \/ AddStage
    \/ RunStart
    \/ CSVLoaderStage(RunnerOutcomes)
    \/ ITDeveloperFilterStage
    \/ PersonalInfoExtractorStage
    \/ SalaryExtractorStage
    \/ ExperienceExtractorStage
    \/ DeveloperLevelLabelerStage(EmptyApplyResults)
    \/ LocationExtractorStage
    \/ EmploymentExtractorStage
    \/ ScheduleExtractorStage
    \/ EducationExtractorStage
    \/ MiscExtractorStage
    \/ CategoricalEncoderStage
    \/ FeatureTargetSplitterStage
    \/ RunReturn

\* a run of an arbitrary pipeline
SpecRunner == InitRunner /\ [][NextRunner]_vars

----------------------------------------------------------------------------
(* DeveloperLevelLabelerStage._determine_level applied to one row.          *)

InitLevel ==
    /\ stages = <<>>
    /\ registered = <<>>
    /\ pc = "idle"
    /\ idx = 0
    /\ current = DataContainer
    /\ stage_input = None
    /\ result = None
    /\ error = ""
    /\ log = <<>>
    /\ fn_arg \in LevelRows
    /\ fn_ret = None

\* df.apply(self._determine_level, axis=1), for one row
DetermineLevel ==
    /\ fn_ret = None
    /\ fn_ret' = Str(_determine_level(fn_arg))
    /\ UNCHANGED <<pipeline_vars, fn_arg>>

NextLevel == DetermineLevel

\* the labeling function on every title and experience of the bounds
SpecLevel == InitLevel /\ [][NextLevel]_vars

----------------------------------------------------------------------------
(* Properties of the labeling function, checked under SpecLevel.            *)

\* the row the labeling function was applied to, once it has returned
LevelCalled == fn_ret # None

\* the lowercased title of the row under test
ArgTitle == lower(str(Get(fn_arg, COL_tmp_job_title, Str(<<>>))))

\* the experience of the row under test, 0 when the row has none
ArgExperience == Get(fn_arg, COL_experience_months, Num(0)).n

\* some Junior, Senior or Middle indicator is contained in the title
ArgJunior == \E k \in 1..Len(JUNIOR_INDICATORS) : Contains(ArgTitle, JUNIOR_INDICATORS[k])

ArgSenior == \E k \in 1..Len(SENIOR_INDICATORS) : Contains(ArgTitle, SENIOR_INDICATORS[k])

ArgMiddle == \E k \in 1..Len(MIDDLE_INDICATORS) : Contains(ArgTitle, MIDDLE_INDICATORS[k])

\* C2: for every title and experience, _determine_level returns the result
\* of the five rules taken in order on the lowercased title: (1) Senior and
\* Junior indicators both match: Senior if experience > 36, else Junior;
\* (2) else a Senior indicator matches: Senior; (3) else a Junior indicator
\* matches: Middle if experience > 60, else Junior; (4) else a Middle
\* indicator matches: Senior if experience > 96, else Middle; (5) else
\* Junior if experience <= 18, Middle if experience <= 60, otherwise Senior.
C2_FiveRules ==
    LevelCalled =>
        /\ (ArgSenior /\ ArgJunior) =>
               fn_ret = Str(IF ArgExperience > 36 THEN Senior ELSE Junior)
        /\ (ArgSenior /\ ~ArgJunior) => fn_ret = Str(Senior)
        /\ (ArgJunior /\ ~ArgSenior) =>
               fn_ret = Str(IF ArgExperience > 60 THEN Middle ELSE Junior)
        /\ (ArgMiddle /\ ~ArgSenior /\ ~ArgJunior) =>
               fn_ret = Str(IF ArgExperience > 96 THEN Senior ELSE Middle)
        /\ (~ArgMiddle /\ ~ArgSenior /\ ~ArgJunior) =>
               fn_ret = Str(IF ArgExperience <= 18 THEN Junior
                            ELSE IF ArgExperience <= 60 THEN Middle
                            ELSE Senior)

\* C2 witness: rule 4 decided a row with more than 96 months
C2_Witness ==
    /\ LevelCalled
    /\ ArgMiddle /\ ~ArgSenior /\ ~ArgJunior
    /\ ArgExperience > 96
    /\ fn_ret = Str(Senior)

\* C3: a title that contains both a Junior and a Senior indicator is labeled
\* Senior when experience > 36 and Junior otherwise, never Middle; with 40
\* months it is Senior and with 10 months Junior.
C3_TieBreak ==
    (LevelCalled /\ ArgJunior /\ ArgSenior) =>
        /\ fn_ret # Str(Middle)
        /\ (fn_ret = Str(Senior)) <=> (ArgExperience > 36)
        /\ (fn_ret = Str(Junior)) <=> (ArgExperience <= 36)
        /\ ArgExperience = 40 => fn_ret = Str(Senior)
        /\ ArgExperience = 10 => fn_ret = Str(Junior)

\* C3 witness: a title with both indicators and 40 months was labeled Senior
C3_Witness ==
    /\ LevelCalled
    /\ ArgJunior /\ ArgSenior
    /\ ArgExperience = 40
    /\ fn_ret = Str(Senior)

\* no keyword set matches the title
ArgNoKeyword == ~ArgJunior /\ ~ArgSenior /\ ~ArgMiddle

\* only the Middle keyword set matches the title
ArgMiddleOnly == ArgMiddle /\ ~ArgJunior /\ ~ArgSenior

\* C4 as stated: with no keyword match, experience 18 is Junior, 19 is
\* Middle and 96 is Middle; with a Middle indicator, 97 is Senior.
C4_Original ==
    LevelCalled =>
        /\ (ArgNoKeyword /\ ArgExperience = 18) => fn_ret = Str(Junior)
        /\ (ArgNoKeyword /\ ArgExperience = 19) => fn_ret = Str(Middle)
        /\ (ArgNoKeyword /\ ArgExperience = 96) => fn_ret = Str(Middle)
        /\ (ArgMiddleOnly /\ ArgExperience = 97) => fn_ret = Str(Senior)

\* C4 amended: with no keyword match, experience 18 is Junior, 19 is Middle
\* and 96 is Senior; with a Middle indicator (and no Junior or Senior one),
\* 96 is Middle and 97 is Senior.
C4_Thresholds ==
    LevelCalled =>
        /\ (ArgNoKeyword /\ ArgExperience = 18) => fn_ret = Str(Junior)
        /\ (ArgNoKeyword /\ ArgExperience = 19) => fn_ret = Str(Middle)
        /\ (ArgNoKeyword /\ ArgExperience = 96) => fn_ret = Str(Senior)
        /\ (ArgMiddleOnly /\ ArgExperience = 96) => fn_ret = Str(Middle)
        /\ (ArgMiddleOnly /\ ArgExperience = 97) => fn_ret = Str(Senior)

\* C4 witness: a title without keywords and 96 months was labeled Senior
C4_Witness ==
    /\ LevelCalled
    /\ ArgNoKeyword
    /\ ArgExperience = 96
    /\ fn_ret = Str(Senior)

\* C5: a title that matches a Junior indicator and no Senior indicator is
\* never labeled Senior: it is Middle when experience > 60, Junior otherwise.
C5_JuniorNeverSenior ==
    (LevelCalled /\ ArgJunior /\ ~ArgSenior) =>
        /\ fn_ret # Str(Senior)
        /\ fn_ret = (IF ArgExperience > 60 THEN Str(Middle) ELSE Str(Junior))

\* C5 witness: a junior title that also holds a Middle indicator, with more
\* than 96 months, was labeled Middle
C5_Witness ==
    /\ LevelCalled
    /\ ArgJunior /\ ~ArgSenior /\ ArgMiddle
    /\ ArgExperience > 96
    /\ fn_ret = Str(Middle)

----------------------------------------------------------------------------
(* Properties of the runner and of the registered pipeline.                 *)

\* the stage run is about to call is called name
NextStageIs(name) == pc = "running" /\ idx < Len(stages) /\ stages[idx + 1] = name

\* the names of the stages whose __call__ was entered, in order
Executed ==
    LET entered == SelectSeq(log, LAMBDA e : e.event = "executing")
    IN  [i \in 1..Len(entered) |-> entered[i].stage]

\* a is a prefix of b
IsPrefix(a, b) == Len(a) <= Len(b) /\ SubSeq(b, 1, Len(a)) = a

\* the stage called name has completed
Completed(name) ==
    \E i \in 1..Len(log) : log[i] = LogEntry("INFO", "completed", name, "")

\* the columns the label is derived from: the raw title, its temporary copy
\* and the experience in months
LeakColumns == {job_title_col, COL_tmp_job_title, COL_experience_months}

\* the column name is a leak column or an indicator column made from one
Leaks(name) ==
    \E c \in LeakColumns : name = c \/ StartsAt(name, 1, c \o <<95>>)

\* no column of the container's table and no feature name leaks
LeakFree(container) ==
    /\ container.processed_data # None =>
           \A c \in Columns(container.processed_data) : ~Leaks(c)
    /\ \A k \in 1..Len(container.feature_labels) : ~Leaks(container.feature_labels[k])

\* C1: once DeveloperLevelLabelerStage has completed, the table holds neither
\* the raw title column, nor '_job_title', nor 'experience_months', in every
\* later state of the run, and none of them is among feature_labels.
C1_NoLeakAfterLabeling ==
    Completed("DeveloperLevelLabeler") =>
        /\ LeakFree(current)
        /\ result # None => LeakFree(result)

\* C1 witness: a run has returned features for a table that had the title
\* and the experience column when the labeler was called
C1_Witness ==
    /\ pc = "done"
    /\ Completed("DeveloperLevelLabeler")
    /\ Len(result.feature_labels) > 0
    /\ Len(result.target_vector.values) > 0
    /\ job_title_col \in Columns(result.raw_data)

\* C6: run executes every registered stage exactly once, in registration
\* order (constructor list, then add_stage calls); every stage is passed
\* the container the stage before it returned, and run returns the
\* container the last stage returned.
C6_RegistrationOrder ==
    /\ [](stages = registered)
    /\ [](IsPrefix(Executed, registered))
    /\ [](pc = "done" => Executed = registered /\ result = current)
    /\ [][Executed' # Executed =>
             /\ Executed' = Append(Executed, registered[idx + 1])
             /\ stage_input' = current
             /\ (pc' = "running" => idx' = idx + 1)]_vars

\* C6 witness: a run of two different stages, the second of which used the
\* table the first one loaded, has returned
C6_Witness ==
    /\ pc = "done"
    /\ Executed = <<"CSVLoader", "DeveloperLevelLabeler">>
    /\ result.target_vector # None
    /\ stage_input.processed_data # None

\* C7: when a stage raises, no later stage is started, run returns no
\* container, the error reaches the caller and the log names the failing
\* stage with it; nothing is retried, resumed or rolled back.
C7_FailFast ==
    /\ [](pc = "failed" =>
            /\ result = None
            /\ error # ""
            /\ Len(Executed) = idx + 1
            /\ log[Len(log)] = LogEntry("ERROR", "failed", stages[idx + 1], error)
            /\ current = stage_input)
    /\ [](\A i \in 1..Len(log) :
            log[i].event = "failed" => (i = Len(log) /\ pc = "failed"))
    /\ [][pc = "failed" => UNCHANGED vars]_vars

\* C7 witness: the third stage raised after two stages had completed, and
\* ten registered stages were never started
C7_Witness ==
    /\ pc = "failed"
    /\ idx = 2
    /\ error = "IndexError"
    /\ Len(stages) = 13
    /\ current.processed_data # None

\* C8: whenever FeatureTargetSplitterStage returns normally, feature_matrix
\* and target_vector are populated and processed_data is cleared; it does
\* not return normally on a table without the target column.
C8_SplitterFailsLoudly ==
    (idx >= 1 /\ idx <= Len(stages) /\ stages[idx] = "FeatureTargetSplitter") =>
        /\ current.feature_matrix # None
        /\ current.target_vector # None
        /\ current.processed_data = None

\* position of the stage called name in the pipeline
Position(name) == CHOOSE k \in 1..Len(stages) : stages[k] = name

\* C9: in the registered pipeline the labeler comes after the experience
\* extractor and before the encoder: 'experience_months' is in the table when
\* the labels are computed, and it and the title are gone when the encoder
\* is called.
C9_LabelerPosition ==
    /\ Position("ExperienceExtractor") < Position("DeveloperLevelLabeler")
    /\ Position("DeveloperLevelLabeler") < Position("CategoricalEncoder")
    /\ NextStageIs("DeveloperLevelLabeler") =>
           COL_experience_months \in Columns(current.processed_data)
    /\ NextStageIs("CategoricalEncoder") =>
           /\ COL_experience_months \notin Columns(current.processed_data)
           /\ job_title_col \notin Columns(current.processed_data)
           /\ COL_developer_level \in Columns(current.processed_data)

\* C9 witness: the encoder is about to be called on labeled rows
C9_Witness ==
    /\ NextStageIs("CategoricalEncoder")
    /\ RowCount(current.processed_data) > 0
    /\ current.target_vector # None

\* the index labels of the rows of the container's table
WorkingRowIds(container) ==
    IF container.processed_data # None THEN RowIds(container.processed_data)
    ELSE <<>>

\* the number of rows the container holds, as a table or as a matrix
RowCountOf(container) ==
    IF container.processed_data # None THEN RowCount(container.processed_data)
    ELSE IF container.feature_matrix # None THEN Len(container.feature_matrix.values)
    ELSE 0

\* C10: a step of an extraction stage leaves the rows of the table as they
\* are, the same rows in the same order, whatever the cells hold; in the
\* whole run the number of rows changes only at the loader and at the filter.
C10_RowsPreserved ==
    [][/\ (pc = "running" /\ idx < Len(stages) /\ stages[idx + 1] \in ExtractorNames) =>
              WorkingRowIds(current') = WorkingRowIds(current)
       /\ RowCountOf(current') # RowCountOf(current) =>
              stages[idx + 1] \in {"CSVLoader", "ITDeveloperFilter"}]_vars

\* C10 witness: all eight extraction stages have completed on a table of two
\* rows, one of them with an empty personal-info cell
C10_Witness ==
    /\ pc = "running"
    /\ Completed("MiscExtractor")
    /\ WorkingRowIds(current) = <<1, 2>>
    /\ COL_personal \in Columns(current.raw_data)
    /\ \E i \in 1..RowCount(current.raw_data) :
           current.raw_data.rows[i].cells[COL_personal] = NaN

----------------------------------------------------------------------------
(* Properties of the columns and of the outputs of the registered pipeline. *)

\* the raw columns of the hh.csv schema
RawColumns == Range(RAW_COLUMNS)

\* the raw columns the container's working table still holds
RawPresent(container) ==
    IF container.processed_data = None THEN {}
    ELSE Columns(container.processed_data) \cap RawColumns

\* all columns of the container's working table
PresentColumns(container) ==
    IF container.processed_data = None THEN {}
    ELSE Columns(container.processed_data)

\* this step is a call of the stage called name that returned
StageReturned(name) ==
    /\ pc = "running" /\ idx < Len(stages) /\ stages[idx + 1] = name
    /\ idx' = idx + 1

\* the raw columns this step removes from the working table
RemovedRaw == RawPresent(current) \ RawPresent(current')

\* the columns this step adds to the working table
AddedColumns == PresentColumns(current') \ PresentColumns(current)

LabelSet == {Str(Junior), Str(Middle), Str(Senior)}

\* the label column of the container's working table
LabelColumn(container) == Values(container.processed_data, COL_developer_level)

\* C12: every label is Junior, Middle or Senior; labels exist only once the
\* labeling stage has completed, and from then on the target vector, the
\* 'developer_level' column of the table (row by row) and the target vector
\* the splitter emits and run returns are the values the labeler assigned.
C12_LabelsImmutable ==
    /\ [](~Completed("DeveloperLevelLabeler") =>
            /\ current.target_vector = None
            /\ COL_developer_level \notin PresentColumns(current))
    /\ [](Completed("DeveloperLevelLabeler") =>
            /\ current.target_vector # None
            /\ \A i \in 1..Len(current.target_vector.values) :
                   current.target_vector.values[i] \in LabelSet
            /\ current.processed_data # None =>
                   /\ COL_developer_level \in PresentColumns(current)
                   /\ LabelColumn(current) = current.target_vector.values
            /\ pc = "done" => result.target_vector = current.target_vector)
    /\ [][Completed("DeveloperLevelLabeler") =>
             /\ current'.target_vector = current.target_vector
             /\ (current.processed_data # None /\ current'.processed_data # None) =>
                    RowIds(current'.processed_data) = RowIds(current.processed_data)]_vars

\* C12 witness: a run has returned two rows with different labels after the
\* encoder and the splitter handled the labeled table
C12_Witness ==
    /\ pc = "done"
    /\ Completed("CategoricalEncoder")
    /\ Completed("FeatureTargetSplitter")
    /\ Len(result.target_vector.values) = 2
    /\ result.target_vector.values[1] # result.target_vector.values[2]

\* the working table the splitter was called with
SplitInput == stage_input.processed_data

\* the splitter was the last stage called and it produced a matrix
SplitDone ==
    /\ idx >= 1 /\ idx <= Len(stages) /\ stages[idx] = "FeatureTargetSplitter"
    /\ pc \in {"running", "done"}
    /\ current.feature_matrix # None

\* C13: after a successful split feature_labels has one name per matrix
\* column, the k-th name being the k-th non-target column of the table that
\* was split and the k-th entry of every matrix row that column's cell;
\* 'developer_level' is not a feature name; target_vector has one entry per
\* matrix row, the i-th entry being the label of the i-th row of the table.
C13_SplitAligned ==
    SplitDone =>
        LET X == current.feature_matrix
            y == current.target_vector
            names == current.feature_labels
            df == SplitInput
        IN  /\ Len(names) = X.shape[2]
            /\ names = SelectSeq(df.cols, LAMBDA c : c # COL_developer_level)
            /\ \A k \in 1..Len(names) : names[k] # COL_developer_level
            /\ X.shape[1] = RowCount(df) /\ Len(X.values) = RowCount(df)
            /\ Len(y.values) = Len(X.values)
            /\ \A i \in 1..Len(X.values) :
                   /\ Len(X.values[i]) = Len(names)
                   /\ \A k \in 1..Len(names) :
                          X.values[i][k] = df.rows[i].cells[names[k]]
                   /\ y.values[i] = df.rows[i].cells[COL_developer_level]
            /\ current.processed_data = None

\* C13 witness: a two-row table with several feature columns was split
C13_Witness ==
    /\ SplitDone
    /\ pc = "done"
    /\ Len(result.feature_matrix.values) = 2
    /\ Len(result.feature_labels) > 5
    /\ result.feature_matrix.values[1] # result.feature_matrix.values[2]

\* the encoder was the last stage called and it returned
EncoderDone ==
    /\ idx >= 1 /\ idx <= Len(stages) /\ stages[idx] = "CategoricalEncoder"
    /\ pc = "running"

\* the free-text columns of a table other than the target
TextColumns(df) ==
    {c \in Columns(df) : df.dtype[c] = "object" /\ c # COL_developer_level}

\* the distinct texts in a column
TextValues(df, c) ==
    {df.rows[i].cells[c].s : i \in {j \in 1..Len(df.rows) : df.rows[j].cells[c].t = "str"}}

\* the columns the encoder added whose name is c, '_' and something
IndicatorsOf(c) ==
    {n \in PresentColumns(current) \ PresentColumns(stage_input) :
        StartsAt(n, 1, c \o <<95>>)}

\* what C14 and its original statement share: an encoded column is gone, its
\* indicator columns are named <column>_<value> for values of the column,
\* every added column is such an indicator, and the target is left alone
EncodedNamed ==
    LET df == stage_input.processed_data IN
    /\ \A c \in TextColumns(df) :
           /\ c \notin PresentColumns(current)
           /\ IndicatorsOf(c) \subseteq {c \o <<95>> \o v : v \in TextValues(df, c)}
    /\ PresentColumns(current) \ PresentColumns(stage_input)
           = UNION {IndicatorsOf(c) : c \in TextColumns(df)}
    /\ IndicatorsOf(COL_developer_level) = {}
    /\ COL_developer_level \in Columns(df) =>
           /\ COL_developer_level \in PresentColumns(current)
           /\ LabelColumn(current) = Values(df, COL_developer_level)

\* C14 as stated: a column with k distinct values yields exactly k-1
\* indicator columns, for every k
C14_Original ==
    EncoderDone =>
        /\ EncodedNamed
        /\ \A c \in TextColumns(stage_input.processed_data) :
               Cardinality(IndicatorsOf(c))
                   = Cardinality(TextValues(stage_input.processed_data, c)) - 1

\* C14: the encoder replaces each free-text column other than the target by
\* k-1 indicator columns named <column>_<value>, k being the number of
\* distinct texts in the column, and by none when the column holds no text
\* (a table without rows); the target is neither encoded nor an indicator.
C14_Encoding ==
    EncoderDone =>
        /\ EncodedNamed
        /\ \A c \in TextColumns(stage_input.processed_data) :
               LET k == Cardinality(TextValues(stage_input.processed_data, c))
               IN  Cardinality(IndicatorsOf(c)) = IF k = 0 THEN 0 ELSE k - 1

\* C14 witness: the encoder replaced a column holding two different texts by
\* one indicator column
C14_Witness ==
    /\ EncoderDone
    /\ \E c \in TextColumns(stage_input.processed_data) :
           /\ Cardinality(TextValues(stage_input.processed_data, c)) = 2
           /\ Cardinality(IndicatorsOf(c)) = 1
           /\ c \notin PresentColumns(current)

\* the stage called last has returned
LastStageReturned ==
    /\ idx >= 1 /\ idx <= Len(stages)
    /\ pc \in {"running", "done"}

\* C15: a stage returns only if every raw column its code refers to by name
\* was in the table it was called with; with such a column absent the stage
\* raises and the run is aborted.
C15_MissingColumnFatal ==
    (LastStageReturned /\ stage_input.processed_data # None) =>
        NamedColumns(stages[idx]) \subseteq Columns(stage_input.processed_data)

\* the file that was loaded had the whole schema
FullSchemaLoaded ==
    current.raw_data # None /\ Columns(current.raw_data) = RawColumns

\* the dtypes of numeric and boolean columns
NumericDtypes == {"int64", "float64", "bool"}

\* C16: once the encoder of the registered pipeline has returned, on a file
\* with the whole schema, every column of the table but 'developer_level' has
\* a numeric or boolean dtype and holds no text, and the feature matrix the
\* splitter makes of it holds no text.
C16_NumericFeatures ==
    FullSchemaLoaded =>
        /\ (Completed("CategoricalEncoder") /\ current.processed_data # None) =>
               LET df == current.processed_data IN
               /\ COL_developer_level \in Columns(df)
               /\ \A c \in Columns(df) \ {COL_developer_level} :
                      /\ df.dtype[c] \in NumericDtypes
                      /\ \A i \in 1..Len(df.rows) : ~IsStr(df.rows[i].cells[c])
        /\ current.feature_matrix # None =>
               \A i \in 1..Len(current.feature_matrix.values) :
                   \A k \in 1..Len(current.feature_matrix.values[i]) :
                       ~IsStr(current.feature_matrix.values[i][k])

\* C16 witness: the encoder has encoded a text column of a table with rows,
\* loaded from a file with the whole schema
C16_Witness ==
    /\ FullSchemaLoaded
    /\ EncoderDone
    /\ TextColumns(stage_input.processed_data) # {}
    /\ RowCount(current.processed_data) = 2
    /\ TextColumns(current.processed_data) = {}

----------------------------------------------------------------------------
(* The registered pipeline run twice in one installation on the same file.  *)

\* what an installation does with a table without rows
Installations == {[empty_apply |-> e] : e \in EmptyApplyResults}

InitRerun ==
    /\ stages = create_data_pipeline
    /\ registered = create_data_pipeline
    /\ pc = "idle"
    /\ idx = 0
    /\ current = DataContainer
    /\ stage_input = None
    /\ result = None
    /\ error = ""
    /\ log = <<>>
    /\ fn_arg \in Installations
    /\ fn_ret = None

\* what the file yields: any table in the first run, the same table again in
\* the second
RerunOutcomes ==
    IF fn_ret = None THEN CsvOutcomes(MaxRerunRows, Schemas)
    ELSE {[failed |-> FALSE, table |-> fn_ret.table]}

\* main() called again: the outcome of the first run is kept aside and run is
\* called on a fresh DataContainer
Rerun ==
    /\ pc \in {"done", "failed"}
    /\ fn_ret = None
    /\ current.raw_data # None
    /\ fn_ret' = [table     |-> current.raw_data,
                  pc        |-> pc,
                  error     |-> error,
                  container |-> IF pc = "done" THEN result ELSE current,
                  executed  |-> [i \in 1..Len(SelectSeq(log, LAMBDA e : e.event = "executing")) |->
                                    SelectSeq(log, LAMBDA e : e.event = "executing")[i].stage]]
    /\ pc' = "idle"
    /\ idx' = 0
    /\ current' = DataContainer
    /\ stage_input' = None
    /\ result' = None
    /\ error' = ""
    /\ log' = <<>>
    /\ UNCHANGED <<stages, registered, fn_arg>>

NextRerun ==
    \/ RunStart
    \/ CSVLoaderStage(RerunOutcomes)
    \/ ITDeveloperFilterStage
    \/ PersonalInfoExtractorStage
    \/ SalaryExtractorStage
    \/ ExperienceExtractorStage
    \/ DeveloperLevelLabelerStage({fn_arg.empty_apply})
    \/ LocationExtractorStage
    \/ EmploymentExtractorStage
    \/ ScheduleExtractorStage
    \/ EducationExtractorStage
    \/ MiscExtractorStage
    \/ CategoricalEncoderStage
    \/ FeatureTargetSplitterStage
    \/ RunReturn
    \/ Rerun

\* two runs of the registered pipeline on one file
SpecRerun == InitRerun /\ [][NextRerun]_vars

\* the second run has ended
SecondRunEnded == fn_ret # None /\ pc \in {"done", "failed"}

----------------------------------------------------------------------------
(* handlers/parsing.py: ParseSalaryHandler                                  *)

\* the rates of ParseSalaryHandler._process, in thousandths
currency_rates ==
    << [key |-> <<1088, 1091, 1073, 46>>, rate |-> 1000]   \* 'руб.': 1.0
     , [key |-> <<85, 83, 68>>, rate |-> 73350]   \* 'USD': 73.35
     , [key |-> <<82, 85, 66>>, rate |-> 1000]   \* 'RUB': 1.0
     , [key |-> <<75, 90, 84>>, rate |-> 180]   \* 'KZT': 0.18
     , [key |-> <<1073, 1077, 1083, 46, 32, 1088, 1091, 1073, 46>>, rate |-> 2280]   \* 'бел. руб.': 2.28
     , [key |-> <<69, 85, 82>>, rate |-> 85860]   \* 'EUR': 85.86
     , [key |-> <<1075, 1088, 1085, 46>>, rate |-> 2720]   \* 'грн.': 2.72
     , [key |-> <<1089, 1091, 1084>>, rate |-> 5]   \* 'сум': 0.005
     , [key |-> <<75, 71, 83>>, rate |-> 980]   \* 'KGS': 0.98
     , [key |-> <<85, 65, 72>>, rate |-> 2500]   \* 'UAH': 2.5
     , [key |-> <<66, 89, 78>>, rate |-> 2500]   \* 'BYN': 2.5
     , [key |-> <<65, 90, 78>>, rate |-> 41100]   \* 'AZN': 41.1
     , [key |-> <<115, 111, 109>>, rate |-> 5]   \* 'som': 0.005
    >>

\* what a call leaves: a returned value or a raised exception
Returned(v) == [raised |-> FALSE, value |-> v]

Raised(e) == [raised |-> TRUE, exc |-> e]

\* key in currency_rates
HasRate(key) == \E i \in 1..Len(currency_rates) : currency_rates[i].key = key

\* currency_rates[key]
RateAt(key) == currency_rates[CHOOSE i \in 1..Len(currency_rates) : currency_rates[i].key = key].rate

\* float(number) returns: the text is a non-empty run of decimal digits
FloatParses(number) == number # <<>> /\ \A i \in 1..Len(number) : IsDecimal(number[i])

\* extract_salary(value) of ParseSalaryHandler._process, values in thousandths
extract_salary(value) ==
    IF ~IsStr(value) THEN Raised("AttributeError")
    ELSE LET tokens == split(strip(replace(value.s, 160, 32)), 32)
             n == DigitTokens(tokens)
             number == Concat(SubSeq(tokens, 1, n))
             currency == IF n < Len(tokens)
                         THEN join(SubSeq(tokens, n + 1, Len(tokens)), 32)
                         ELSE <<>>
         IN  IF ~HasRate(strip(currency)) THEN Raised("KeyError")
             ELSE IF ~FloatParses(number) THEN Raised("ValueError")
             ELSE Returned(RateAt(strip(currency)) * DecimalValue(number))

----------------------------------------------------------------------------
(* The functions applied by Series.apply, called on one cell.                *)

\* cells of the personal-info column
PersonalInfoCells ==
    { Str(<<1052, 1091, 1078, 1095, 1080, 1085, 1072, 32, 44, 32, 51, 48, 32, 1083, 1077, 1090, 32, 44, 32, 1088, 1086, 1076, 1080, 1083, 1089, 1103, 32, 53, 32, 1084, 1072, 1103, 32, 49, 57, 56, 57>>)   \* 'Мужчина , 30 лет , родился 5 мая 1989'
    , Str(<<77, 97, 108, 101, 44, 32, 50, 53, 44, 32, 98, 111, 114, 110, 32, 111, 110, 32, 51, 32, 77, 97, 121, 32, 49, 57, 57, 52>>)   \* 'Male, 25, born on 3 May 1994'
    , Str(<<1046, 1077, 1085, 1097, 1080, 1085, 1072, 32, 44, 32, 52, 49, 32, 1075, 1086, 1076, 32, 44, 32, 1088, 1086, 1076, 1080, 1083, 1072, 1089, 1100, 32, 49, 50, 32, 1103, 1085, 1074, 1072, 1088, 1103, 32, 49, 57, 55, 56>>)   \* 'Женщина , 41 год , родилась 12 января 1978'
    , Str(<<70, 101, 109, 97, 108, 101, 32, 44, 32, 50, 50, 32, 121, 101, 97, 114, 115, 32, 44, 32, 98, 111, 114, 110, 32, 111, 110, 32, 49, 32, 68, 101, 99, 101, 109, 98, 101, 114, 32, 49, 57, 57, 55>>)   \* 'Female , 22 years , born on 1 December 1997'
    , Str(<<32, 77, 97, 108, 101, 32, 44, 51, 48>>)   \* ' Male ,30'
    , Str(<<77, 97, 108, 101>>)   \* 'Male'
    , Str(<<1052, 1091, 1078, 1095, 1080, 1085, 1072>>)   \* 'Мужчина'
    , Str(<<109, 97, 108, 101, 44, 32, 51, 48, 44, 32, 98, 111, 114, 110, 32, 111, 110, 32, 49, 32, 74, 117, 110, 101, 32, 49, 57, 57, 48>>)   \* 'male, 30, born on 1 June 1990'
    , Str(<<1052, 1091, 1078, 1095, 1080, 1085, 1072, 160, 44, 32, 51, 48, 160, 1083, 1077, 1090, 32, 44, 32, 1088, 1086, 1076, 1080, 1083, 1089, 1103, 160, 53, 160, 1084, 1072, 1103, 160, 49, 57, 56, 57>>)   \* 'Мужчина\xa0, 30\xa0лет , родился\xa05\xa0мая\xa01989'
    , Str(<<>>)   \* ''
    , Str(<<77, 97, 108, 101, 44, 32, 51, 48, 44, 32, 120>>)   \* 'Male, 30, x'
    , Str(<<77, 97, 108, 101, 44, 32, 51, 48, 44, 32>>)   \* 'Male, 30, '
    , Str(<<70, 101, 109, 97, 108, 101, 44, 32, 97, 98, 99, 44, 32, 98, 111, 114, 110, 32, 111, 110, 32, 53, 32, 70, 111, 111, 32, 49, 57, 57, 48>>)   \* 'Female, abc, born on 5 Foo 1990'
    , Str(<<77, 97, 108, 101, 44, 32, 51, 48, 44, 32, 77, 97, 121, 32, 49, 57, 57, 48>>)   \* 'Male, 30, May 1990'
    , Str(<<79, 116, 104, 101, 114, 44, 32, 51, 48>>)   \* 'Other, 30'
    , Str(<<77, 97, 108, 101, 44, 32, 45, 53, 32, 1083, 1077, 1090>>)   \* 'Male, -5 лет'
    , Str(<<77, 97, 108, 101, 44, 32, 51, 48, 1083, 1077, 1090>>)   \* 'Male, 30лет'
    , Str(<<77, 97, 108, 101, 44, 32, 43, 51, 48, 32, 121, 101, 97, 114, 115>>)   \* 'Male, +30 years'
    , Str(<<77, 97, 108, 101, 44, 32, 49, 95, 48>>)   \* 'Male, 1_0'
    , Str(<<77, 97, 108, 101, 44, 51, 48, 160, 1083, 1077, 1090>>)   \* 'Male,30\xa0лет'
    , Str(<<77, 97, 108, 101, 44, 32, 1635, 1632, 32, 121, 101, 97, 114, 115>>)   \* 'Male, ٣٠ years'
    }

\* cells of the salary column
SalaryCells ==
    { Str(<<49, 48, 48, 48, 32, 1088, 1091, 1073, 46>>)   \* '1000 руб.'
    , Str(<<50, 32, 48, 48, 48, 32, 85, 83, 68>>)   \* '2 000 USD'
    , Str(<<53, 48, 48, 48, 48, 32, 88, 89, 90>>)   \* '50000 XYZ'
    , Str(<<53, 48, 48, 32, 115, 111, 109>>)   \* '500 som'
    , Str(<<1087, 1086, 32, 1076, 1086, 1075, 1086, 1074, 1086, 1088, 1105, 1085, 1085, 1086, 1089, 1090, 1080>>)   \* 'по договорённости'
    , Str(<<53, 48, 48, 48, 48>>)   \* '50000'
    , Str(<<1088, 1091, 1073, 46>>)   \* 'руб.'
    , Str(<<49, 160, 53, 48, 48, 160, 69, 85, 82>>)   \* '1\xa0500\xa0EUR'
    , Str(<<49, 48, 48, 32, 1073, 1077, 1083, 46, 32, 1088, 1091, 1073, 46>>)   \* '100 бел. руб.'
    , Str(<<1635, 1632, 32, 75, 90, 84>>)   \* '٣٠ KZT'
    , Str(<<178, 32, 85, 83, 68>>)   \* '² USD'
    , Str(<<32, 55, 48, 32, 69, 85, 82, 32>>)   \* ' 70 EUR '
    }

\* cells of the experience column
ExperienceCells ==
    { Str(<<51, 32, 1075, 1086, 1076, 1072, 32, 52, 32, 1084, 1077, 1089, 1103, 1094, 1072>>)   \* '3 года 4 месяца'
    , Str(<<53, 32, 1083, 1077, 1090>>)   \* '5 лет'
    , Str(<<1054, 1087, 1099, 1090, 32, 1088, 1072, 1073, 1086, 1090, 1099, 32, 49, 48, 32, 1083, 1077, 1090, 32, 49, 49, 32, 1084, 1077, 1089, 1103, 1094, 1077, 1074>>)   \* 'Опыт работы 10 лет 11 месяцев'
    , Str(<<52, 32, 1084, 1077, 1089, 1103, 1094, 1072, 32, 51, 32, 1075, 1086, 1076, 1072>>)   \* '4 месяца 3 года'
    , Str(<<49, 32, 1075, 1086, 1076>>)   \* '1 год'
    , Str(<<50, 1075, 1086, 1076, 1072>>)   \* '2года'
    , Str(<<55, 32, 1084, 1077, 1089, 1103, 1094, 1077, 1074>>)   \* '7 месяцев'
    , Str(<<1085, 1077, 1090, 32, 1086, 1087, 1099, 1090, 1072>>)   \* 'нет опыта'
    , Str(<<53, 32, 1051, 1045, 1058>>)   \* '5 ЛЕТ'
    , Str(<<50, 32, 1075, 1086, 1076, 1072, 32, 49, 32, 1084, 1077, 1089, 1103, 1094, 44, 32, 1088, 1072, 1085, 1077, 1077, 32, 51, 32, 1075, 1086, 1076, 1072, 32, 53, 32, 1084, 1077, 1089, 1103, 1094, 1077, 1074>>)   \* '2 года 1 месяц, ранее 3 года 5 месяцев'
    , Str(<<49, 50, 32, 32, 1083, 1077, 1090>>)   \* '12  лет'
    , Str(<<1083, 1077, 1090, 32, 53>>)   \* 'лет 5'
    , Str(<<49, 53, 32, 51, 32, 1075, 1086, 1076, 1072>>)   \* '15 3 года'
    }

\* cells of the city column
CityCells ==
    { Str(<<1052, 1086, 1089, 1082, 1074, 1072, 32, 44, 32, 1085, 1077, 32, 1075, 1086, 1090, 1086, 1074, 32, 1082, 32, 1087, 1077, 1088, 1077, 1077, 1079, 1076, 1091>>)   \* 'Москва , не готов к переезду'
    , Str(<<1052, 1086, 1089, 1082, 1074, 1072, 44, 32, 46, 46, 46>>)   \* 'Москва, ...'
    , Str(<<1052, 1086, 1089, 1082, 1074, 1072>>)   \* 'Москва'
    , Str(<<1084, 1086, 1089, 1082, 1074, 1072>>)   \* 'москва'
    , Str(<<65, 116, 108, 97, 110, 116, 105, 115>>)   \* 'Atlantis'
    , Str(<<32, 1050, 1072, 1079, 1072, 1085, 1100, 32, 44, 120>>)   \* ' Казань ,x'
    , Str(<<77, 105, 110, 115, 107>>)   \* 'Minsk'
    , Str(<<1040, 1083, 1084, 1072, 1090, 1099, 32, 44, 32, 1075, 1086, 1090, 1086, 1074, 32, 1082, 32, 1087, 1077, 1088, 1077, 1077, 1079, 1076, 1091>>)   \* 'Алматы , готов к переезду'
    , Str(<<1057, 1072, 1085, 1082, 1090, 45, 1055, 1077, 1090, 1077, 1088, 1073, 1091, 1088, 1075>>)   \* 'Санкт-Петербург'
    , Str(<<77, 111, 115, 99, 111, 119, 32, 38, 32, 79, 98, 108, 97, 115, 116>>)   \* 'Moscow & Oblast'
    , Str(<<79, 116, 104, 101, 114>>)   \* 'Other'
    , Str(<<44, 32, 1052, 1086, 1089, 1082, 1074, 1072>>)   \* ', Москва'
    }

\* cells of the resume date column
DateCells ==
    { Str(<<49, 54, 46, 48, 52, 46, 50, 48, 49, 57, 32, 49, 53, 58, 53, 57>>)   \* '16.04.2019 15:59'
    , Str(<<48, 49, 46, 48, 50, 46, 50, 48, 49, 56, 32, 49, 48, 58, 48, 48>>)   \* '01.02.2018 10:00'
    , Str(<<51, 49, 46, 49, 50, 46, 50, 48, 49, 56, 32, 50, 51, 58, 53, 57>>)   \* '31.12.2018 23:59'
    , Str(<<48, 49, 46, 48, 49, 46, 50, 48, 49, 57, 32, 48, 48, 58, 48, 48>>)   \* '01.01.2019 00:00'
    , Str(<<48, 53, 46, 48, 53, 46, 50, 48, 49, 55>>)   \* '05.05.2017'
    , Str(<<1074, 1095, 1077, 1088, 1072>>)   \* 'вчера'
    , Str(<<50, 48, 49, 56, 45, 48, 50, 45, 48, 49>>)   \* '2018-02-01'
    , Str(<<48, 49, 46, 48, 50, 46, 32, 50, 48, 49, 56>>)   \* '01.02. 2018'
    , Str(<<48, 49, 46, 48, 50, 46, 97, 98, 99, 100, 32, 49, 48, 58, 48, 48>>)   \* '01.02.abcd 10:00'
    , Str(<<48, 49, 46, 48, 50, 46, 49, 56, 32, 49, 48, 58, 48, 48>>)   \* '01.02.18 10:00'
    }

\* cells that hold no text: a missing value and a number
NonTextCells == {NaN, Num(30)}

CellInputs ==
    PersonalInfoCells \cup SalaryCells \cup ExperienceCells \cup CityCells
        \cup DateCells \cup NonTextCells

InitCell ==
    /\ stages = <<>>
    /\ registered = <<>>
    /\ pc = "idle"
    /\ idx = 0
    /\ current = DataContainer
    /\ stage_input = None
    /\ result = None
    /\ error = ""
    /\ log = <<>>
    /\ fn_arg \in CellInputs
    /\ fn_ret = None

\* the call fn(fn_arg) ends with the given outcome
CellCall(fn, outcome) ==
    /\ fn_ret = None
    /\ fn_ret' = [fn |-> fn, outcome |-> outcome]
    /\ UNCHANGED <<pipeline_vars, fn_arg>>

ParseGender == CellCall("_parse_gender", Returned(_parse_gender(fn_arg)))

ParseBirthMonth ==
    CellCall("_parse_birth_month",
             IF BirthMonthRaises(fn_arg) THEN Raised("IndexError")
             ELSE Returned(_parse_birth_month(fn_arg)))

NormalizeSalary == CellCall("_normalize_salary", Returned(_normalize_salary(fn_arg)))

ExtractSalary == CellCall("extract_salary", extract_salary(fn_arg))

ParseAge == CellCall("_parse_age", Returned(_parse_age(fn_arg)))

ExtractMonths == CellCall("_extract_months", Returned(_extract_months(fn_arg)))

CategorizeCity == CellCall("_categorize_city", Returned(Str(_categorize_city(fn_arg))))

IsOldResume == CellCall("_is_old_resume", Returned(_is_old_resume(fn_arg)))

NextCell ==
    \/ ParseGender
    \/ ParseBirthMonth
    \/ NormalizeSalary
    \/ ExtractSalary
    \/ ParseAge
    \/ ExtractMonths
    \/ CategorizeCity
    \/ IsOldResume

\* every cell function on every cell of the input sets
SpecCell == InitCell /\ [][NextCell]_vars

\* the call of fn has ended
Called(fn) == fn_ret # None /\ fn_ret.fn = fn

----------------------------------------------------------------------------
(* Claims about the cell functions.                                         *)

\* the whitespace tokens of a salary cell
SalaryTokens(cell) == split(strip(replace(cell.s, 160, 32)), 32)

\* the cell has no leading digit token
NoAmount(cell) == DigitTokens(SalaryTokens(cell)) = 0

\* the amount the leading digit tokens of the cell spell
AmountOf(cell) ==
    DecimalValue(Concat(SubSeq(SalaryTokens(cell), 1, DigitTokens(SalaryTokens(cell)))))

\* the leading digit tokens of the cell spell an amount
HasAmount(cell) ==
    /\ ~NoAmount(cell)
    /\ FloatParses(Concat(SubSeq(SalaryTokens(cell), 1, DigitTokens(SalaryTokens(cell)))))

\* the currency descriptor of the cell
DescriptorOf(cell) ==
    strip(join(SubSeq(SalaryTokens(cell), DigitTokens(SalaryTokens(cell)) + 1,
                      Len(SalaryTokens(cell))), 32))

\* the salary policy, for the outcome of one extractor on the cell fn_arg
SalaryPolicy ==
    /\ ~fn_ret.outcome.raised
    /\ (IsStr(fn_arg) /\ NoAmount(fn_arg)) => fn_ret.outcome.value = 0
    /\ (IsStr(fn_arg) /\ HasAmount(fn_arg) /\ ~HasRate(DescriptorOf(fn_arg))) =>
           fn_ret.outcome.value = DEFAULT_RATE * AmountOf(fn_arg)

\* C18: both salary extractors, SalaryExtractorStage._normalize_salary and
\* ParseSalaryHandler.extract_salary, never raise for a cell, convert an
\* unknown currency at rate 1.0 and yield 0.0 for a value with no leading
\* digit token.
C18_SalaryPolicy ==
    (Called("_normalize_salary") \/ Called("extract_salary")) => SalaryPolicy

\* the third comma-separated token of the cell names a month
NamesMonth(cell) ==
    /\ IsStr(cell)
    /\ Len(split(cell.s, 44)) >= 3
    /\ Len(BirthTokens(cell)) >= 2
    /\ \E i \in 1..Len(month_map) :
           month_map[i].key = BirthTokens(cell)[Len(BirthTokens(cell)) - 1]

\* C19: _parse_birth_month never raises; it returns the 0-11 index of the
\* month named by the second-to-last whitespace token of the third
\* comma-separated token, and -1 when that token is absent, has fewer than
\* two whitespace tokens or names no known month.
C19_BirthMonthTotal ==
    Called("_parse_birth_month") =>
        /\ ~fn_ret.outcome.raised
        /\ NamesMonth(fn_arg) => fn_ret.outcome.value \in 0..11
        /\ ~NamesMonth(fn_arg) => fn_ret.outcome.value = -1

\* the first comma-separated token of the cell, trimmed, is a male literal
IsMaleLiteral(cell) ==
    /\ IsStr(cell)
    /\ \E i \in 1..Len(MALE_LITERALS) : MALE_LITERALS[i] = strip(split(cell.s, 44)[1])

\* C20: _parse_gender returns 0 exactly when the first comma-separated token
\* of the cell, trimmed, is 'Мужчина' or 'Male', and 1 for every other cell,
\* a missing or non-text cell included.
C20_GenderLiterals ==
    Called("_parse_gender") =>
        /\ fn_ret.outcome.value \in {0, 1}
        /\ fn_ret.outcome.value = 0 <=> IsMaleLiteral(fn_arg)

----------------------------------------------------------------------------
(* Claims about the remaining cell functions.                               *)

\* the second comma-separated token of the cell, trimmed, non-breaking
\* spaces replaced
AgeToken(cell) == replace(strip(split(cell.s, 44)[2]), 160, 32)

\* the leading run of decimal digits of a text
LeadingRun(text) == SubSeq(text, 1, DigitRunEnd(text, 1) - 1)

\* the cell has a second token that starts with a number
StartsWithNumber(cell) ==
    /\ IsStr(cell)
    /\ Len(split(cell.s, 44)) >= 2
    /\ LeadingRun(AgeToken(cell)) # <<>>

\* C21: _parse_age never raises; it returns the integer value of the leading
\* numeric run of the second comma-separated token, and -1 when that token
\* is absent or does not start with a number.
C21_AgeLeadingRun ==
    Called("_parse_age") =>
        /\ ~fn_ret.outcome.raised
        /\ StartsWithNumber(fn_arg) =>
               fn_ret.outcome.value = DecimalValue(LeadingRun(AgeToken(fn_arg)))
        /\ ~StartsWithNumber(fn_arg) => fn_ret.outcome.value = -1

\* the descriptor of the cell is a key of CURRENCY_RATES
ListedCurrency(cell) ==
    \E i \in 1..Len(CURRENCY_RATES) : CURRENCY_RATES[i].key = DescriptorOf(cell)

\* the fixed rate of the descriptor of the cell, in thousandths
ListedRate(cell) ==
    CURRENCY_RATES[CHOOSE i \in 1..Len(CURRENCY_RATES) :
                       CURRENCY_RATES[i].key = DescriptorOf(cell)].rate

\* '1000 руб.'
BaseCurrencyCell == Str(<<49, 48, 48, 48, 32, 1088, 1091, 1073, 46>>)

\* C22: for a salary text whose leading digit-only tokens spell an amount and
\* whose remaining tokens, joined by single spaces, are a descriptor listed in
\* CURRENCY_RATES, _normalize_salary returns the amount multiplied by the
\* rate of the descriptor; '1000 руб.' gives 1000.0.
C22_SalaryNormalised ==
    Called("_normalize_salary") =>
        /\ (IsStr(fn_arg) /\ HasAmount(fn_arg) /\ ListedCurrency(fn_arg)) =>
               fn_ret.outcome.value = AmountOf(fn_arg) * ListedRate(fn_arg)
        /\ fn_arg = BaseCurrencyCell => fn_ret.outcome.value = 1000 * 1000

\* C22 witness: an amount of two tokens with a descriptor of two tokens,
\* '100 бел. руб.', was converted at the rate 2.28
C22_Witness ==
    /\ Called("_normalize_salary")
    /\ IsStr(fn_arg)
    /\ Len(SalaryTokens(fn_arg)) = 3
    /\ ListedCurrency(fn_arg)
    /\ ListedRate(fn_arg) = 2280
    /\ fn_ret.outcome.value = 100 * 2280

\* the positions of text where an integer starts that directly precedes one
\* of the words, whitespace between them allowed
IntegersBefore(text, words) ==
    {i \in 1..Len(text) :
        /\ IsDecimal(text[i])
        /\ (i = 1 \/ ~IsDecimal(text[i - 1]))
        /\ \E w \in 1..Len(words) :
               StartsAt(text, SpaceRunEnd(text, DigitRunEnd(text, i)), words[w])}

\* the first integer of text that directly precedes one of the words, 0 when
\* there is none
FirstIntegerBefore(text, words) ==
    IF IntegersBefore(text, words) = {} THEN 0
    ELSE LET i == CHOOSE m \in IntegersBefore(text, words) :
                      \A o \in IntegersBefore(text, words) : m <= o
         IN  DecimalValue(SubSeq(text, i, DigitRunEnd(text, i) - 1))

\* the months the text of an experience cell spells
MonthsSpelled(text) ==
    12 * FirstIntegerBefore(text, YEAR_WORDS) + FirstIntegerBefore(text, MONTH_WORDS)

\* C23: _extract_months returns 12 times the first integer that directly
\* precedes a year word plus the first integer that directly precedes a month
\* word, each part 0 when absent, and 0 for a cell that is not text;
\* '3 года 4 месяца' gives 40, '5 лет' gives 60 and '' gives 0.
C23_ExperienceMonths ==
    Called("_extract_months") =>
        /\ ~fn_ret.outcome.raised
        /\ IsStr(fn_arg) => fn_ret.outcome.value = MonthsSpelled(fn_arg.s)
        /\ ~IsStr(fn_arg) => fn_ret.outcome.value = 0
        /\ fn_arg = Str(<<51, 32, 1075, 1086, 1076, 1072, 32, 52, 32, 1084, 1077, 1089, 1103, 1094, 1072>>) =>
               fn_ret.outcome.value = 40
        /\ fn_arg = Str(<<53, 32, 1083, 1077, 1090>>) => fn_ret.outcome.value = 60
        /\ fn_arg = Str(<<>>) => fn_ret.outcome.value = 0

\* C23 witness: a text with both parts, the month part first
\* ('4 месяца 3 года'), gave 40
C23_Witness ==
    /\ Called("_extract_months")
    /\ IsStr(fn_arg)
    /\ FirstIntegerBefore(fn_arg.s, YEAR_WORDS) = 3
    /\ FirstIntegerBefore(fn_arg.s, MONTH_WORDS) = 4
    /\ fn_arg.s[1] = 52
    /\ fn_ret.outcome.value = 40

\* the regions whose city list contains the name
RegionsOf(name) ==
    {r \in 1..Len(REGION_MAPPING) :
        \E c \in 1..Len(REGION_MAPPING[r].cities) : REGION_MAPPING[r].cities[c] = name}

\* the trimmed first comma-segment of a city cell
CityName(cell) == strip(split(cell.s, 44)[1])

\* the keys of REGION_MAPPING
RegionLabels == {REGION_MAPPING[r].region : r \in 1..Len(REGION_MAPPING)}

\* no city name occurs in the lists of two regions
ManyToOne ==
    \A r \in 1..Len(REGION_MAPPING) : \A c \in 1..Len(REGION_MAPPING[r].cities) :
        RegionsOf(REGION_MAPPING[r].cities[c]) = {r}

\* C24: _categorize_city returns the one key of REGION_MAPPING whose list
\* holds the trimmed first comma-segment of the cell, compared exactly, and
\* 'Other' when no list holds it or the cell is not text; no city is in two
\* lists and the result is one of the eleven region labels or 'Other'.
C24_Region ==
    Called("_categorize_city") =>
        /\ ManyToOne
        /\ Cardinality(RegionLabels) = 11
        /\ fn_ret.outcome.value.s \in RegionLabels \cup {OTHER_REGION}
        /\ IF IsStr(fn_arg) /\ RegionsOf(CityName(fn_arg)) # {}
           THEN \A r \in RegionsOf(CityName(fn_arg)) :
                    fn_ret.outcome.value.s = REGION_MAPPING[r].region
           ELSE fn_ret.outcome.value.s = OTHER_REGION

\* C24 witness: 'Москва, ...' was put in 'Moscow & Oblast'
C24_Witness ==
    /\ Called("_categorize_city")
    /\ fn_arg = Str(<<1052, 1086, 1089, 1082, 1074, 1072, 44, 32, 46, 46, 46>>)
    /\ fn_ret.outcome.value.s = <<77, 111, 115, 99, 111, 119, 32, 38, 32, 79, 98, 108, 97, 115, 116>>

\* the cell is a text with at least three dot-separated parts
HasYearToken(cell) == IsStr(cell) /\ Len(split(cell.s, 46)) >= 3

\* the year token of a 'DD.MM.YYYY ...' text: the third dot-separated part up
\* to its first space
YearToken(cell) == split(split(cell.s, 46)[3], 32)[1]

\* the year token of the cell is a year
HasYear(cell) == HasYearToken(cell) /\ IntParses(YearToken(cell))

\* C26: _is_old_resume never raises; it returns 1 when the year token of the
\* date is a year not after 2018, 0 when it is a later year, and 0 for a
\* missing cell or a text with no year token that parses.
C26_ResumeOld ==
    Called("_is_old_resume") =>
        /\ ~fn_ret.outcome.raised
        /\ fn_ret.outcome.value \in {0, 1}
        /\ fn_ret.outcome.value = 1 <=> (HasYear(fn_arg) /\ int(YearToken(fn_arg)) <= 2018)

\* C26 witness: a date of the cutoff year, '31.12.2018 23:59', was flagged old
C26_Witness ==
    /\ Called("_is_old_resume")
    /\ HasYear(fn_arg)
    /\ int(YearToken(fn_arg)) = 2018
    /\ split(fn_arg.s, 46)[2] = <<49, 50>>
    /\ fn_ret.outcome.value = 1

----------------------------------------------------------------------------
(* Claims about the stages of the registered pipeline as table operations.  *)

\* the three stages that derive one indicator per category, each with its
\* source column, its column prefix and its categories
IndicatorStages ==
    { [name |-> "EmploymentExtractor", col |-> emp_col,
       prefix |-> PREFIX_employment, types |-> EMPLOYMENT_TYPES]
    , [name |-> "ScheduleExtractor", col |-> schedule_col,
       prefix |-> PREFIX_schedule, types |-> SCHEDULE_TYPES]
    , [name |-> "EducationExtractor", col |-> edu_col,
       prefix |-> PREFIX_education, types |-> EDUCATION_LEVELS] }

\* the lowercased text of the cell contains one of the phrases
HasPhrase(cell, phrases) ==
    \E k \in 1..Len(phrases) : Contains(lower(str(cell)), phrases[k])

\* in table after, row i holds for every category of the stage the flag of
\* the source cell of row i in table before
FlagsOfRow(st, before, after, i) ==
    \A t \in 1..Len(st.types) :
        after.rows[i].cells[st.prefix \o st.types[t].type] =
            IF HasPhrase(before.rows[i].cells[st.col], st.types[t].keywords)
            THEN Num(1) ELSE Num(0)

\* C25: the Employment, Schedule and Education stages add exactly one column
\* per category, and in every row the column of a category holds 1 when the
\* lowercased source text contains one of the phrases of that category and 0
\* otherwise, whatever the other categories hold.
C25_IndependentFlags ==
    [][\A st \in IndicatorStages :
          StageReturned(st.name) =>
              /\ AddedColumns = {st.prefix \o st.types[t].type : t \in 1..Len(st.types)}
              /\ Cardinality(AddedColumns) = Len(st.types)
              /\ RowCount(current'.processed_data) = RowCount(current.processed_data)
              /\ \A i \in 1..RowCount(current.processed_data) :
                     FlagsOfRow(st, current.processed_data, current'.processed_data, i)]_vars

\* the number of indicators of the stage that row i of the table has set
FlagsSet(st, df, i) ==
    Cardinality({t \in 1..Len(st.types) :
                    df.rows[i].cells[st.prefix \o st.types[t].type] = Num(1)})

\* C25 witness: the three stages have completed on a table of two rows, one
\* with two employment indicators set and one with no schedule indicator set
C25_Witness ==
    /\ pc = "running"
    /\ Completed("EducationExtractor")
    /\ current.processed_data # None
    /\ RowCount(current.processed_data) = 2
    /\ \E st \in IndicatorStages :
           /\ st.name = "EmploymentExtractor"
           /\ FlagsSet(st, current.processed_data, 1) = 2
    /\ \E st \in IndicatorStages :
           /\ st.name = "ScheduleExtractor"
           /\ FlagsSet(st, current.processed_data, 2) = 0

\* the container holds no feature matrix and no feature names
NoFeatures(container) ==
    container.feature_matrix = None /\ container.feature_labels = <<>>

\* C27: as long as FeatureTargetSplitterStage has not completed, the container
\* holds no feature matrix and no feature names, so a run aborted by a failing
\* stage leaves none; the target vector is set from the moment the labeling
\* stage has completed.
C27_FeaturesOnlyAfterSplit ==
    /\ ~Completed("FeatureTargetSplitter") => NoFeatures(current)
    /\ pc = "failed" => NoFeatures(current) /\ result = None
    /\ Completed("DeveloperLevelLabeler") => current.target_vector # None
    /\ Completed("FeatureTargetSplitter") => ~NoFeatures(current)

\* C27 witness: a run was aborted by a stage after the labeling stage, and
\* the container it leaves has a target vector with an entry but no features
C27_Witness ==
    /\ pc = "failed"
    /\ Completed("DeveloperLevelLabeler")
    /\ current.target_vector # None
    /\ Len(current.target_vector.values) > 0
    /\ NoFeatures(current)


\* the title cell names an IT position: it is a text whose lowercase form
\* contains a primary keyword or a tech-stack keyword, or an ambiguous keyword
\* together with an IT-context indicator
ITTitle(cell) ==
    /\ IsStr(cell)
    /\ \/ AnyIn(PRIMARY_KEYWORDS, lower(cell.s))
       \/ AnyIn(TECH_STACK_KEYWORDS, lower(cell.s))
       \/ /\ AnyIn(AMBIGUOUS_KEYWORDS, lower(cell.s))
          /\ AnyIn(IT_CONTEXT_INDICATORS, lower(cell.s))

SameColumn(before, after, c) ==
    /\ c \in Columns(after)
    /\ Values(after, c) = Values(before, c)

\* C29: CategoricalEncoderStage keeps every column that is not text, and the
\* target column, under its name with the same value in every row, keeps the
\* rows and their order, and returns the table as it was when no column other
\* than the target is text.
C29_EncoderFrame ==
    [][StageReturned("CategoricalEncoder") =>
          LET before == current.processed_data
              after == current'.processed_data
          IN  /\ RowIds(after) = RowIds(before)
              /\ \A c \in Columns(before) \ TextColumns(before) :
                     SameColumn(before, after, c)
              /\ TextColumns(before) = {} => after = before]_vars

\* C29 witness: the encoder was called with a table of two rows that holds a
\* text column, a numeric column and the target, and has returned a table
\* where the text column is replaced by an indicator column
C29_Witness ==
    /\ pc = "running"
    /\ idx > 0
    /\ stages[idx] = "CategoricalEncoder"
    /\ stage_input.processed_data # None
    /\ current.processed_data # None
    /\ RowCount(stage_input.processed_data) = 2
    /\ COL_region \in TextColumns(stage_input.processed_data)
    /\ COL_developer_level \in Columns(stage_input.processed_data)
    /\ Columns(stage_input.processed_data) \ TextColumns(stage_input.processed_data)
           # {COL_developer_level}
    /\ COL_region \notin Columns(current.processed_data)
    /\ Columns(current.processed_data) \ Columns(stage_input.processed_data) # {}

\* C29 second case: the encoder was called with a table whose only text
\* column is the target and has returned
C29_NoTextColumn ==
    /\ pc = "running"
    /\ idx > 0
    /\ stages[idx] = "CategoricalEncoder"
    /\ stage_input.processed_data # None
    /\ COL_developer_level \in Columns(stage_input.processed_data)
    /\ TextColumns(stage_input.processed_data) = {}

\* C30: the table CSVLoaderStage stores in raw_data is the table it read, only
\* that stage sets raw_data, and no later step of the run changes it, so the
\* container a completed or aborted run leaves holds the table as loaded.
C30_RawDataKept ==
    [][/\ StageReturned("CSVLoader") =>
             /\ current'.raw_data # None
             /\ current'.raw_data = current'.processed_data
       /\ current'.raw_data # current.raw_data =>
             /\ current.raw_data = None
             /\ StageReturned("CSVLoader")
       /\ pc' = "done" => result'.raw_data = current'.raw_data]_vars

\* C30 witness: a run has completed on a table of two rows of which the filter
\* kept one, and the container it returned holds the table of two rows
C30_Witness ==
    /\ pc = "done"
    /\ Completed("FeatureTargetSplitter")
    /\ result.raw_data # None
    /\ RowCount(result.raw_data) = 2
    /\ Columns(result.raw_data) = RawColumns
    /\ Len(result.feature_matrix.values) = 1
    /\ result.processed_data = None

\* C30 second case: a run was aborted by a stage after the filter had dropped
\* a row, and the container it leaves holds the table of two rows
C30_Aborted ==
    /\ pc = "failed"
    /\ Completed("ITDeveloperFilter")
    /\ current.raw_data # None
    /\ RowCount(current.raw_data) = 2
    /\ current.processed_data # None
    /\ RowCount(current.processed_data) < 2
====
